---- MODULE Spec2Model ----
(***************************************************************************)
(* Model of the ai-commit command line assistant: argument parsing and     *)
(* dispatch (bin/ai-commit.ts), the commit, pull-request and review flows  *)
(* (bin/ai-commit.ts, lib/pr.ts, lib/review.ts), the text generation       *)
(* client (lib/ai.ts) and the terminal confirmation flows                  *)
(* (lib/formatter.ts).                                                     *)
(*                                                                         *)
(* Texts are sequences of characters.  A few words whose inner characters  *)
(* never matter (command names, model names) are written as one symbol.    *)
(***************************************************************************)
EXTENDS Integers, Sequences, FiniteSets, TLC

VARIABLES
  harness,      \* "cli": the program run as a process; "unit": a library function called with process.exit mocked
  entry,        \* the function the run enters: "main" or the library function called directly
  argv,         \* process.argv.slice(2)
  configModel,  \* OPENAI_MODEL as configured in the environment when the process starts
  envModel,     \* process.env.OPENAI_MODEL
  pc,           \* position of the run
  dispatched,   \* what the switch in main selected ("none" before dispatch)
  diff,         \* const diff (runCommit, performCodeReview, generatePRDescription)
  currentBranch,\* const currentBranch (generatePRDescription)
  commits,      \* const commits (generatePRDescription)
  message,      \* the message parameter of confirmCommitMessage / generated text held by a flow
  answer,       \* the first line read by confirmCommitMessage (as typed)
  newMessage,   \* the replacement line read by confirmCommitMessage (as typed)
  finalMessage, \* the text confirmCommitMessage resolved to
  linesRead,    \* number of terminal lines read so far
  rlOpen,       \* number of readline interfaces currently open
  calls,        \* log of calls to the collaborating functions, in order
  requests,     \* log of chat-completion requests sent
  out,          \* log of console messages
  writes,       \* log of the file writes attempted
  exitCalls,    \* log of the status codes passed to process.exit
  branchArg,    \* the branch argument of a direct call of getBranchCommits / getBranchDiff
  execs,        \* log of the subprocess commands run by the branch functions of lib/git.ts
  result,       \* what a directly called function of lib/git.ts or lib/ai.ts returned
  printedCount, \* the number in the message 'Found N commit(s) in this branch' (-1: not printed)
  rlLog,        \* log of the readline interfaces created ("open") and closed ("close")
  disk,         \* the files of the working directory the tool has written, with their content
  diskAtStart,  \* the files as they were when this invocation started
  invocation,   \* the number of this invocation of the tool in the working directory
  terminated    \* TRUE once the process has really exited

vars == <<harness, entry, argv, configModel, envModel, pc, dispatched, diff, currentBranch,
          commits, message, answer, newMessage, finalMessage, linesRead,
          rlOpen, calls, requests, out, writes, exitCalls, branchArg, execs, result,
          printedCount, rlLog, disk, diskAtStart, invocation, terminated>>

----------------------------------------------------------------------------
(* Bounds *)

MaxArgs == 3        \* longest argument list
MaxDiffLen == 1     \* longest diff text returned by the version-control tool
MaxCommitsLen == 1  \* longest commit listing returned by the version-control tool
MaxContentLen == 2  \* longest content of an API response
MaxTermLen == 1     \* longest terminal line typed during a whole flow
MaxLineLen == 3     \* longest terminal line typed when confirmCommitMessage is called directly
MaxRefs == 2        \* most remote branches in a listing of `git branch -r`
MaxCommitLines == 3 \* most lines of a commit listing of several lines
MaxInvocations == 2 \* most invocations of the tool in one working directory
MaxShellLen == 3    \* longest message passed when commitChanges is called directly

\* all texts over the characters cs of length at most n
Texts(cs, n) == UNION {[1..k -> cs] : k \in 0..n}

----------------------------------------------------------------------------
(* String primitives *)

Whitespace == {" ", "\n", "\t"}

RECURSIVE trimStart(_)
trimStart(s) ==
  IF Len(s) > 0 /\ s[1] \in Whitespace THEN trimStart(SubSeq(s, 2, Len(s))) ELSE s

RECURSIVE trimEnd(_)
trimEnd(s) ==
  IF Len(s) > 0 /\ s[Len(s)] \in Whitespace THEN trimEnd(SubSeq(s, 1, Len(s) - 1)) ELSE s

\* mutant: only the leading whitespace is removed
trimStartOnly(s) == trimStart(s)

\* mutant: the call of trim is missing
trimMissing(s) == s

trim(s) == trimEnd(trimStart(s))

lowerChar(c) ==
  CASE c = "Y" -> "y"
    [] c = "E" -> "e"
    [] c = "S" -> "s"
    [] c = "N" -> "n"
    [] c = "O" -> "o"
    [] c = "D" -> "d"
    [] c = "I" -> "i"
    [] c = "T" -> "t"
    [] OTHER -> c

\* mutant: the call of toLowerCase is missing
toLowerCaseMissing(s) == s

toLowerCase(s) == [i \in 1..Len(s) |-> lowerChar(s[i])]

\* mutant: the emptiness check is missing
falsyNever(s) == FALSE

\* !s for a string s
falsy(s) == s = <<>>

\* s.startsWith('-')
startsWithDash(s) == Len(s) > 0 /\ s[1] = "-"

----------------------------------------------------------------------------
(* Inputs *)

CmdCommit == <<"commit">>
CmdPr == <<"pr">>
CmdReview == <<"review">>
CmdHelp == <<"help">>
FlagHelp == <<"-", "-", "help">>
FlagH == <<"-", "h">>
FlagModel == <<"-", "-", "model">>

Args == {CmdCommit, CmdPr, CmdReview, CmdHelp, FlagHelp, FlagH, FlagModel,
         <<"gpt-4">>, <<"-", "-", "verbose">>, <<"foo">>}

\* the words of the argument lists of more than two arguments
LongArgs == {CmdPr, CmdReview, FlagModel, <<"gpt-4">>, <<"-", "-", "verbose">>}

ArgLists == Texts(Args, 2) \cup {l \in Texts(LongArgs, MaxArgs) : Len(l) > 2}

Unset == [set |-> FALSE, val |-> <<>>]
EnvValue(v) == [set |-> TRUE, val |-> v]
EnvModels == {Unset, EnvValue(<<>>), EnvValue(<<"gpt-4o">>)}

DiffTexts == Texts({" ", "d"}, MaxDiffLen)
CommitTexts == Texts({" ", "\n", "c"}, MaxCommitsLen)

\* one line of `git log --oneline`, or a line that is empty or holds only a space
CommitLineTexts == {<<>>, <<" ">>, <<"c">>}

RECURSIVE joinLines(_)
joinLines(ls) ==
  IF ls = <<>> THEN <<>>
  ELSE IF Len(ls) = 1 THEN ls[1]
  ELSE ls[1] \o <<"\n">> \o joinLines(Tail(ls))

\* commit listings of several lines, blank lines and trailing line ends included
CommitListings == {joinLines(ls) : ls \in Texts(CommitLineTexts, MaxCommitLines)}

BranchMain == <<"m", "a", "i", "n">>
BranchMaster == <<"m", "a", "s", "t", "e", "r">>
BranchDevelop == <<"d", "e", "v", "e", "l", "o", "p">>
\* what `git branch --show-current` can print, before trimming
BranchOutputs == {BranchMain, BranchMaster, BranchDevelop, <<>>, <<"f">>, <<"f", "/", "x">>,
                  <<"m", "a", "i", "n", "\n">>, <<"f", "\n">>}
Timestamps == {<<"t1">>, <<"t2">>}

\* the clock readings in their order; an invocation after the first reads a later one
TimeLine == <<"t1", "t2", "t3", "t4", "t5", "t6">>
LaterTime(n) == <<TimeLine[n + 1]>>

\* remote branches, as `git branch -r` names them
Origin == <<"o", "r", "i", "g", "i", "n", "/">>
RemoteRefs == {Origin \o BranchMain, Origin \o BranchMaster, Origin \o BranchDevelop,
               Origin \o <<"f">>, Origin \o BranchMain \o <<"t", "e", "n", "a", "n", "c", "e">>}

\* the text `git branch -r` prints for the remote branches refs: one indented line each
RECURSIVE listing(_)
listing(refs) ==
  IF refs = <<>> THEN <<>>
  ELSE <<" ", " ">> \o Head(refs) \o <<"\n">> \o listing(Tail(refs))

Listings == {listing(refs) : refs \in Texts(RemoteRefs, MaxRefs)}
\* the listings met when getBranchCommits / getBranchDiff are called directly
DirectListings == {listing(<<>>), listing(<<Origin \o BranchMaster>>),
                   listing(<<Origin \o <<"f">>, Origin \o BranchMain>>)}

\* the value of a variable that holds nothing (yet), of a parameter that was not passed
NoText == <<"<none>">>

\* the branch argument of getBranchCommits / getBranchDiff: absent, '' or a name
BranchArgs == {NoText, <<>>, <<"f">>, <<"f", "/", "x">>}
Contents == Texts({" ", "m"}, MaxContentLen)

\* an API outcome: a response with content, a response whose content is null, or a rejection
Responses == [kind : {"content"}, text : Contents]
               \cup {[kind |-> "null", text |-> <<>>], [kind |-> "error", text |-> <<>>]}

TermLines == Texts({" ", "y", "n", "e", "x"}, MaxTermLen)
AnswerLines == Texts({" ", "y", "Y", "e", "E", "s", "S", "n", "N", "o", "O", "x"}, MaxLineLen)
ReplacementLines == Texts({" ", "r"}, MaxLineLen)
DirectMessages == {<<>>, <<"m">>}

\* the answers typed when confirmPRDescription or displayCodeReview is called directly: a word,
\* written in lower case, capitalised or in upper case, with or without whitespace around it
upperChar(c) ==
  CASE c = "y" -> "Y" [] c = "e" -> "E" [] c = "s" -> "S" [] c = "n" -> "N" [] c = "o" -> "O"
    [] c = "d" -> "D" [] c = "i" -> "I" [] c = "t" -> "T" [] OTHER -> c
AnswerWords == {<<>>, <<"y">>, <<"y", "e", "s">>, <<"e">>, <<"e", "d", "i", "t">>, <<"n">>,
                <<"n", "o">>, <<"x">>, <<"y", "e">>, <<"e", "d">>, <<"y", " ", "e">>}
Capitalised(w) == [i \in 1..Len(w) |-> IF i = 1 THEN upperChar(w[i]) ELSE w[i]]
UpperCased(w) == [i \in 1..Len(w) |-> upperChar(w[i])]
SaveAnswerLines ==
  {pre \o v \o post : pre \in {<<>>, <<" ">>}, post \in {<<>>, <<" ">>, <<"\t">>},
                       v \in UNION {{w, Capitalised(w), UpperCased(w)} : w \in AnswerWords}}

\* the messages passed when commitChanges is called directly: letters, double quotes,
\* dollar signs, backticks and semicolons
\* the character U+0060, which a string of this notation cannot hold
Backtick == "BACKTICK"
ShellChars == {"a", "\"", "$", Backtick, ";"}
ShellTexts == Texts(ShellChars, MaxShellLen)

\* what the environment of the shell holds: the value of a variable the message names, the
\* output of a command the message names, whether sh reads $"..." as bash does, and whether
\* it gives up the whole command line when a command substitution does not parse (as dash
\* does for most such texts) or goes on with an empty text (as bash does)
VarValues == {<<>>, <<"v">>}
CmdOutputs == {<<>>, <<"o">>}
ShellEnvs == [v : VarValues, o : CmdOutputs, bash : BOOLEAN, strict : BOOLEAN]

\* the branch names passed when confirmPRDescription is called directly
DirectBranches == {<<"f">>, <<"f", "/", "x">>, <<"F", "1">>, <<"f", "/", "x", "/", "y">>,
                   <<"f", "-", "x", "_", "1">>, <<"a", ".", "b", " ", "c">>, <<>>}

\* the version-control tool has so far answered every command of this run, with the same
\* current branch each time and with a commit listing of one line
PlainRead ==
  /\ commits \in {NoText, <<"c">>}
  /\ \A i \in DOMAIN execs :
       /\ execs[i].ok
       /\ execs[i].cmd = "git branch --show-current" => trim(execs[i].text) = currentBranch

\* Runs with at most one command-line argument and no model configured, and direct calls,
\* are explored over every bounded input while the version-control tool has answered
\* plainly; runs with longer argument lists or a configured model, the steps after another
\* answer and later invocations over one or two inputs per outcome.
Plain ==
  /\ harness = "unit" \/ (Len(argv) <= 1 /\ ~configModel.set)
  /\ PlainRead
  /\ invocation = 1

\* the value standing for an answer that the code does not consult
Pin(S) == CHOOSE x \in S : TRUE

StagedDiffs == IF Plain THEN DiffTexts ELSE {<<>>, <<"d">>}
BranchNames == IF Plain THEN BranchOutputs ELSE {BranchMain, <<"f">>}
CommitLists == IF Plain THEN CommitTexts \cup CommitListings ELSE {<<"c">>}
ApiResponses == IF Plain THEN Responses
                ELSE {[kind |-> "content", text |-> <<"m">>], [kind |-> "error", text |-> <<>>]}
SaveTimes == IF invocation > 1 THEN {LaterTime(invocation)}
             ELSE IF Plain THEN Timestamps ELSE {<<"t1">>}

\* the argument lists of an invocation after the first
LaterArgLists == {<<CmdPr>>, <<CmdReview>>}

\* the lines a user can type at this point of the run
FirstLines == IF entry = "confirmCommitMessage" THEN AnswerLines
              ELSE IF entry \in {"confirmPRDescription", "displayCodeReview"} THEN SaveAnswerLines
              ELSE IF Plain THEN TermLines ELSE {<<"y">>, <<"n">>}
SecondLines == IF entry = "confirmCommitMessage" THEN ReplacementLines
               ELSE IF Plain THEN TermLines ELSE {<<>>, <<"r">>}


\* a logged call: the function, its arguments and what it returned (NoText: nothing, or not yet)
Call(op, args, ret) == [op |-> op, args |-> args, ret |-> ret]
RetTrue == <<"true">>
RetFalse == <<"false">>
RetVoid == <<"<void>">>
Threw == <<"<throws>">>
\* what a logged subprocess read returned
RetOf(r) == IF r.ok THEN r.text ELSE Threw
\* the log cs once its latest call has returned v
Returned(cs, v) == [cs EXCEPT ![Len(cs)].ret = v]


----------------------------------------------------------------------------
(* Argument parsing: bin/ai-commit.ts parseArgs *)

Commands == {CmdCommit, CmdPr, CmdReview, CmdHelp, FlagHelp, FlagH}

\* the loop of parseArgs from index i on (1-based), st the values assigned so far
RECURSIVE parseFrom(_, _, _)
parseFrom(args, i, st) ==
  IF i > Len(args) THEN st
  ELSE IF args[i] = FlagModel /\ i + 1 <= Len(args) /\ ~falsy(args[i + 1])
    THEN parseFrom(args, i + 2, [st EXCEPT !.model = EnvValue(args[i + 1])])
  ELSE IF args[i] \in Commands
    THEN parseFrom(args, i + 1, [st EXCEPT !.command = args[i]])
  ELSE parseFrom(args, i + 1, [st EXCEPT !.otherArgs = Append(@, args[i])])

parseArgs(args) ==
  parseFrom(args, 1, [command |-> CmdCommit, model |-> Unset, otherArgs |-> <<>>])

\* the target of the switch in the main function
route(command) ==
  CASE command = CmdCommit -> "runCommit"
    [] command = CmdPr -> "runPR"
    [] command = CmdReview -> "runReview"
    [] command \in {CmdHelp, FlagHelp, FlagH} -> "showHelp"
    [] OTHER -> IF startsWithDash(command) THEN "showHelpAndExit" ELSE "runCommit"

----------------------------------------------------------------------------
(* Text generation client: lib/ai.ts *)

DefaultModel == <<"gpt-3.5-turbo">>

\* mutant: the model is hard-coded, the configuration is not read
getModelHardCoded == DefaultModel

getModel == IF envModel.set /\ ~falsy(envModel.val) THEN envModel.val ELSE DefaultModel

CommitTemperature == 7      \* tenths
CommitMaxTokens == 100
PRTemperature == 7          \* tenths
PRMaxTokens == 800
\* mutant: the review is sampled like the other texts
ReviewTemperatureOfCommit == CommitTemperature
ReviewTemperature == 3      \* tenths
ReviewMaxTokens == 1000

\* the outcome of a request that has not settled yet
Pending == [kind |-> "pending", text |-> <<>>]

Request(op, inputs, temperature, maxTokens) ==
  [op |-> op, model |-> getModel, inputs |-> inputs,
   temperature |-> temperature, max_tokens |-> maxTokens, reply |-> Pending]

\* the log of requests once the latest request has settled with resp
Replied(rs, resp) == [rs EXCEPT ![Len(rs)].reply = resp]

\* mutant: the content is returned as received
contentOfUntrimmed(resp) == IF resp.kind = "null" THEN <<>> ELSE resp.text

\* response.choices[0].message.content?.trim() || ''
contentOf(resp) ==
  IF resp.kind = "null" THEN <<>>
  ELSE LET t == trim(resp.text) IN IF ~falsy(t) THEN t ELSE <<>>

----------------------------------------------------------------------------
(* process.exit: ends a real process; returns when mocked by a test *)

Stops == harness = "cli"

\* the position after process.exit(...) when the code after it would continue at next
AfterExit(next) == IF Stops THEN "exited" ELSE next

----------------------------------------------------------------------------
(* Initial states *)

Init ==
  /\ harness \in {"cli", "unit"}
  /\ entry \in IF harness = "cli" THEN {"main"}
               ELSE {"generatePRDescription", "performCodeReview", "confirmCommitMessage",
                     "getMainBranch", "getBranchCommits", "getBranchDiff",
                     "confirmPRDescription", "displayCodeReview", "commitChanges"}
  /\ argv \in IF harness = "cli" THEN ArgLists ELSE {<<>>}
  /\ configModel \in IF entry \in {"main", "generatePRDescription", "performCodeReview"}
                       THEN EnvModels ELSE {Unset}
  /\ envModel = configModel
  /\ pc = entry
  /\ dispatched = "none"
  /\ diff = NoText
  /\ currentBranch \in IF entry = "confirmPRDescription" THEN DirectBranches ELSE {NoText}
  /\ commits = NoText
  /\ message \in IF entry \in {"confirmCommitMessage", "confirmPRDescription", "displayCodeReview"}
                   THEN DirectMessages
                 ELSE IF entry = "commitChanges" THEN ShellTexts ELSE {NoText}
  /\ answer = NoText
  /\ newMessage = NoText
  /\ finalMessage = NoText
  /\ linesRead = 0
  /\ rlOpen = 0
  /\ calls = <<>>
  /\ requests = <<>>
  /\ out = <<>>
  /\ writes = <<>>
  /\ exitCalls = <<>>
  /\ branchArg \in IF entry \in {"getBranchCommits", "getBranchDiff"} THEN BranchArgs ELSE {NoText}
  /\ execs = <<>>
  /\ result = NoText
  /\ printedCount = -1
  /\ rlLog = <<>>
  /\ disk = {}
  /\ diskAtStart = {}
  /\ invocation = 1
  /\ terminated = FALSE

----------------------------------------------------------------------------
(* bin/ai-commit.ts: the main function *)

Main ==
  /\ pc = "main"
  /\ LET p == parseArgs(argv)
         target == route(p.command)
     IN /\ envModel' = IF p.model.set THEN p.model ELSE envModel
        /\ dispatched' = target
        /\ CASE target = "runCommit" ->
                  pc' = "runCommit" /\ UNCHANGED <<out, exitCalls, terminated>>
             [] target = "runPR" ->
                  pc' = "generatePRDescription" /\ UNCHANGED <<out, exitCalls, terminated>>
             [] target = "runReview" ->
                  pc' = "performCodeReview" /\ UNCHANGED <<out, exitCalls, terminated>>
             [] target = "showHelp" ->
                  /\ pc' = "done"
                  /\ out' = Append(out, "usage")
                  /\ UNCHANGED <<exitCalls, terminated>>
             [] OTHER ->
                  /\ out' = Append(out, "usage")
                  /\ exitCalls' = Append(exitCalls, 1)
                  /\ pc' = AfterExit("done")
                  /\ terminated' = Stops
  /\ UNCHANGED <<harness, entry, argv, printedCount, rlLog, disk, diskAtStart, invocation,
                 branchArg, execs, result, configModel, diff, currentBranch, commits, message, answer,
                 newMessage, finalMessage, linesRead, rlOpen, calls, requests, writes>>

----------------------------------------------------------------------------
(* lib/formatter.ts: confirmCommitMessage *)

\* the call of confirmCommitMessage(m) up to its first question, made after the calls cs
EnterConfirm(m, cs, o) ==
  /\ message' = m
  /\ calls' = Append(cs, Call("confirmCommitMessage", <<m>>, NoText))
  /\ rlOpen' = rlOpen + 1
  /\ rlLog' = Append(rlLog, "open")
  /\ out' = Append(o, "Generated commit message:")
  /\ pc' = "AwaitingInitialAnswer"

CallConfirm ==
  /\ pc = "confirmCommitMessage"
  /\ EnterConfirm(message, calls, out)
  /\ UNCHANGED <<harness, entry, argv, printedCount, disk, diskAtStart, invocation,
                 branchArg, execs, result, configModel, envModel, dispatched, diff, currentBranch, commits,
                 answer, newMessage, finalMessage, linesRead, requests, writes,
                 exitCalls, terminated>>

IsAccept(t) == t = <<>> \/ t = <<"y">> \/ t = <<"y", "e", "s">>
IsReject(t) == t = <<"n">> \/ t = <<"n", "o">>

\* mutant: editRl is created before rl is closed
editRlOpensFirst == <<"open", "close">>

\* rl.close() is the first statement of the callback; the n/no branch then creates editRl
editRlOpens == <<"close", "open">>

\* the callback of the first question
InitialAnswer ==
  /\ pc = "AwaitingInitialAnswer"
  /\ \E line \in FirstLines :
       LET trimmedAnswer == toLowerCase(trim(line)) IN
       /\ answer' = line
       /\ linesRead' = linesRead + 1
       /\ IF IsAccept(trimmedAnswer)
            THEN /\ finalMessage' = message
                 /\ calls' = Returned(calls, message)
                 /\ rlOpen' = rlOpen - 1
                 /\ rlLog' = Append(rlLog, "close")
                 /\ pc' = "Resolved"
                 /\ out' = out
          ELSE IF IsReject(trimmedAnswer)
            THEN /\ out' = Append(out, "Please provide your commit message:")
                 /\ rlOpen' = (rlOpen - 1) + 1
                 /\ rlLog' = rlLog \o editRlOpens
                 /\ pc' = "AwaitingReplacementText"
                 /\ UNCHANGED <<finalMessage, calls>>
          ELSE /\ finalMessage' = trim(line)
               /\ calls' = Returned(calls, trim(line))
               /\ rlOpen' = rlOpen - 1
               /\ rlLog' = Append(rlLog, "close")
               /\ pc' = "Resolved"
               /\ out' = out
  /\ UNCHANGED <<harness, entry, argv, printedCount, disk, diskAtStart, invocation,
                 branchArg, execs, result, configModel, envModel, dispatched, diff, currentBranch, commits,
                 message, newMessage, requests, writes, exitCalls, terminated>>

\* mutant: the typed text, trimmed, with no fallback to the message
replacementOnly(line, m) == trim(line)

\* newMessage.trim() || message
replacement(line, m) == IF ~falsy(trim(line)) THEN trim(line) ELSE m

\* mutant: a replacement of white space only is asked for again
afterReplacementAsksAgain(line) ==
  IF falsy(trim(line)) THEN "AwaitingReplacementText" ELSE "Resolved"

\* resolve(...) is called whatever the replacement text is
afterReplacement(line) == "Resolved"

\* the callback of the second question
ReplacementText ==
  /\ pc = "AwaitingReplacementText"
  /\ \E line \in SecondLines :
       /\ newMessage' = line
       /\ linesRead' = linesRead + 1
       /\ rlOpen' = rlOpen - 1
       /\ rlLog' = Append(rlLog, "close")
       /\ finalMessage' = replacement(line, message)
       /\ calls' = Returned(calls, replacement(line, message))
       /\ pc' = afterReplacement(line)
  /\ UNCHANGED <<harness, entry, argv, printedCount, disk, diskAtStart, invocation,
                 branchArg, execs, result, configModel, envModel, dispatched, diff, currentBranch, commits,
                 message, answer, requests, out, writes, exitCalls, terminated>>

----------------------------------------------------------------------------
(* bin/ai-commit.ts: runCommit *)

\* the outcome of a subprocess that prints a text: the text, or a failure
GitResults(texts) == [ok : {TRUE}, text : texts] \cup {[ok |-> FALSE, text |-> <<>>]}

\* mutant: the catch block reports the error and does not call process.exit
CatchReportOnly(o, label) ==
  /\ out' = Append(o, label)
  /\ exitCalls' = exitCalls
  /\ pc' = "done"
  /\ terminated' = FALSE

\* the catch block of a flow: report and process.exit(1)
Catch(o, label) ==
  /\ out' = Append(o, label)
  /\ exitCalls' = Append(exitCalls, 1)
  /\ pc' = AfterExit("done")
  /\ terminated' = Stops

RunCommit ==
  /\ pc = "runCommit"
  /\ \E r \in GitResults(StagedDiffs) :
       LET c1 == Append(calls, Call("getStagedDiff", <<>>, RetOf(r))) IN
       IF ~r.ok
         THEN /\ Catch(out, "Error:")
              /\ calls' = c1
              /\ UNCHANGED <<diff, requests>>
       ELSE IF falsy(r.text) /\ Stops
         THEN /\ diff' = r.text
              /\ calls' = c1
              /\ out' = Append(out, "No staged changes detected.")
              /\ exitCalls' = Append(exitCalls, 0)
              /\ pc' = "exited"
              /\ terminated' = TRUE
              /\ UNCHANGED requests
       ELSE /\ diff' = r.text
            /\ calls' = Append(c1, Call("generateCommitMessage", <<r.text>>, NoText))
            /\ requests' = Append(requests, Request("generateCommitMessage", <<r.text>>,
                                                     CommitTemperature, CommitMaxTokens))
            /\ out' = IF falsy(r.text) THEN Append(out, "No staged changes detected.") ELSE out
            /\ exitCalls' = IF falsy(r.text) THEN Append(exitCalls, 0) ELSE exitCalls
            /\ pc' = "awaitCommitMessage"
            /\ UNCHANGED terminated
  /\ UNCHANGED <<harness, entry, argv, printedCount, rlLog, disk, diskAtStart, invocation,
                 branchArg, execs, result, configModel, envModel, dispatched, currentBranch, commits, message,
                 answer, newMessage, finalMessage, linesRead, rlOpen, writes>>

\* the chat-completion call of generateCommitMessage settles
CommitMessageResponse ==
  /\ pc = "awaitCommitMessage"
  /\ \E resp \in ApiResponses, confirmThrows \in BOOLEAN :
       /\ requests' = Replied(requests, resp)
       /\ IF resp.kind = "error"
            THEN /\ ~confirmThrows
                 /\ Catch(out, "Error:")
                 /\ calls' = Returned(calls, Threw)
                 /\ UNCHANGED <<message, rlOpen, rlLog>>
          ELSE IF confirmThrows
            THEN /\ Catch(out, "Error:")
                 /\ calls' = Append(Returned(calls, contentOf(resp)),
                                    Call("confirmCommitMessage", <<contentOf(resp)>>, Threw))
                 /\ UNCHANGED <<message, rlOpen, rlLog>>
            ELSE /\ EnterConfirm(contentOf(resp), Returned(calls, contentOf(resp)), out)
                 /\ UNCHANGED <<exitCalls, terminated>>
  /\ UNCHANGED <<harness, entry, argv, printedCount, disk, diskAtStart, invocation,
                 branchArg, execs, result, configModel, envModel, dispatched, diff, currentBranch, commits,
                 answer, newMessage, finalMessage, linesRead, writes>>

\* mutant: the generated message is committed instead of the confirmed one
CommitChangesGenerated ==
  /\ pc = "Resolved"
  /\ entry = "main"
  /\ \E ok \in BOOLEAN :
       /\ calls' = Append(calls, Call("commitChanges", <<message>>, IF ok THEN NoText ELSE Threw))
       /\ IF ok THEN pc' = "done" /\ UNCHANGED <<out, exitCalls, terminated>>
                ELSE Catch(out, "Error:")
  /\ UNCHANGED <<harness, entry, argv, printedCount, rlLog, disk, diskAtStart, invocation,
                 branchArg, execs, result, configModel, envModel, dispatched, diff, currentBranch, commits,
                 message, answer, newMessage, finalMessage, linesRead, rlOpen, requests,
                 writes>>

\* mutant: the message is committed without waiting for the answer to the question
CommitChangesUnasked ==
  /\ pc \in {"Resolved", "AwaitingInitialAnswer"}
  /\ entry = "main"
  /\ \E ok \in BOOLEAN :
       /\ calls' = Append(calls, Call("commitChanges", <<message>>, IF ok THEN NoText ELSE Threw))
       /\ IF ok THEN pc' = "done" /\ UNCHANGED <<out, exitCalls, terminated>>
                ELSE Catch(out, "Error:")
  /\ UNCHANGED <<harness, entry, argv, printedCount, rlLog, disk, diskAtStart, invocation,
                 branchArg, execs, result, configModel, envModel, dispatched, diff, currentBranch, commits,
                 message, answer, newMessage, finalMessage, linesRead, rlOpen, requests,
                 writes>>

\* commitChanges(finalMessage) after the confirmation resolved
CommitChanges ==
  /\ pc = "Resolved"
  /\ entry = "main"
  /\ \E ok \in BOOLEAN :
       /\ calls' = Append(calls, Call("commitChanges", <<finalMessage>>, IF ok THEN NoText ELSE Threw))
       /\ IF ok THEN pc' = "done" /\ UNCHANGED <<out, exitCalls, terminated>>
                ELSE Catch(out, "Error:")
  /\ UNCHANGED <<harness, entry, argv, printedCount, rlLog, disk, diskAtStart, invocation,
                 branchArg, execs, result, configModel, envModel, dispatched, diff, currentBranch, commits,
                 message, answer, newMessage, finalMessage, linesRead, rlOpen, requests,
                 writes>>

----------------------------------------------------------------------------
(* lib/formatter.ts: file writing helpers *)

AlphaNum ==
  {"a", "b", "c", "d", "e", "f", "g", "h", "i", "j", "k", "l", "m", "n", "o", "p", "q", "r", "s",
   "t", "u", "v", "w", "x", "y", "z", "A", "B", "C", "D", "E", "F", "G", "H", "I", "J", "K", "L",
   "M", "N", "O", "P", "Q", "R", "S", "T", "U", "V", "W", "X", "Y", "Z", "0", "1", "2", "3", "4",
   "5", "6", "7", "8", "9"}

\* mutant: the regular expression has no g flag, only the first match is replaced
sanitizeFirstOnly(s) ==
  [i \in 1..Len(s) |->
     IF s[i] \notin AlphaNum /\ \A k \in 1..(i - 1) : s[k] \in AlphaNum THEN "-" ELSE s[i]]

\* branchName.replace(/[^a-zA-Z0-9]/g, '-')
sanitize(s) == [i \in 1..Len(s) |-> IF s[i] \in AlphaNum THEN s[i] ELSE "-"]

prFilename(branchName) == <<"pr-description-">> \o sanitize(branchName) \o <<".md">>
reviewFilename(ts) == <<"code-review-">> \o ts \o <<".md">>

Write(name, content, ok) == [file |-> name, content |-> content, ok |-> ok]

\* the files after fs.writeFileSync(name, content): the file holds content when the write succeeded
Saved(files, name, content, ok) ==
  IF ok THEN {f \in files : f.file # name} \cup {[file |-> name, content |-> content]}
  ELSE files

\* mutant: the empty answer does not save
isSaveAnswerNoEmpty(t) == t = <<"y">> \/ t = <<"y", "e", "s">>

\* trimmedAnswer === 'y' || trimmedAnswer === 'yes' || trimmedAnswer === ''
isSaveAnswer(t) == t = <<"y">> \/ t = <<"y", "e", "s">> \/ t = <<>>

\* trimmedAnswer === 'edit' || trimmedAnswer === 'e'
isEditAnswer(t) == t = <<"e", "d", "i", "t">> \/ t = <<"e">>

\* mutant: the empty answer saves the review too
isReviewSaveAnswerOrEmpty(t) == t = <<"y">> \/ t = <<"y", "e", "s">> \/ t = <<>>

\* trimmedAnswer === 'y' || trimmedAnswer === 'yes'
isReviewSaveAnswer(t) == t = <<"y">> \/ t = <<"y", "e", "s">>

\* mutant: the failure of writeFileSync is not caught
SaveResultUncaught(ok, saved, failed) ==
  IF ok THEN /\ out' = out \o saved
             /\ calls' = Returned(calls, RetVoid)
             /\ pc' = "done"
             /\ UNCHANGED <<exitCalls, terminated>>
  ELSE /\ calls' = Returned(calls, Threw)
       /\ out' = Append(out, failed)
       /\ exitCalls' = Append(exitCalls, 1)
       /\ pc' = IF harness = "cli" THEN "exited" ELSE "done"
       /\ terminated' = (harness = "cli")

\* the try/catch around fs.writeFileSync, and the promise resolving after it
SaveResult(ok, saved, failed) ==
  /\ out' = IF ok THEN out \o saved ELSE Append(out, failed)
  /\ calls' = Returned(calls, RetVoid)
  /\ pc' = "done"
  /\ UNCHANGED <<exitCalls, terminated>>

\* mutant: editPRDescription saves the description and then writes the file again
editPRDescriptionAfterSave(ws, branchName, description, ok) ==
  Append(Append(ws, Write(prFilename(branchName), description, ok)),
         Write(prFilename(branchName), description, ok))

\* editPRDescription: one fs.writeFileSync(filepath, description)
editPRDescription(ws, branchName, description, ok) ==
  Append(ws, Write(prFilename(branchName), description, ok))

\* confirmPRDescription(message, currentBranch) called directly, up to its question
CallConfirmPR ==
  /\ pc = "confirmPRDescription"
  /\ calls' = Append(calls, Call("confirmPRDescription", <<message, currentBranch>>, NoText))
  /\ out' = Append(out, "Generated PR description for branch:")
  /\ rlOpen' = rlOpen + 1
  /\ rlLog' = Append(rlLog, "open")
  /\ pc' = "AwaitingSaveDecision"
  /\ UNCHANGED <<harness, entry, argv, printedCount, disk, diskAtStart, invocation,
                 branchArg, execs, result, configModel, envModel, dispatched,
                 diff, currentBranch, commits, message, answer, newMessage, finalMessage,
                 linesRead, requests, writes, exitCalls, terminated>>

\* displayCodeReview(message) called directly, up to its question
CallDisplayReview ==
  /\ pc = "displayCodeReview"
  /\ calls' = Append(calls, Call("displayCodeReview", <<message>>, NoText))
  /\ out' = Append(out, "AI Code Review Results:")
  /\ rlOpen' = rlOpen + 1
  /\ rlLog' = Append(rlLog, "open")
  /\ pc' = "AwaitingReviewSaveDecision"
  /\ UNCHANGED <<harness, entry, argv, printedCount, disk, diskAtStart, invocation,
                 branchArg, execs, result, configModel, envModel, dispatched,
                 diff, currentBranch, commits, message, answer, newMessage, finalMessage,
                 linesRead, requests, writes, exitCalls, terminated>>

----------------------------------------------------------------------------
(* lib/review.ts: performCodeReview *)

ReviewStart ==
  /\ pc = "performCodeReview"
  /\ \E isRepo \in BOOLEAN, r \in GitResults(StagedDiffs) :
       LET c1 == Append(calls, Call("isGitRepository", <<>>, IF isRepo THEN RetTrue ELSE RetFalse))
           c2 == Append(c1, Call("getStagedDiff", <<>>, RetOf(r)))
           o2 == Append(out, "Analyzing staged changes for code review...")
       IN
       IF ~isRepo
         THEN /\ r = Pin(GitResults(BranchNames))
              /\ calls' = c1
              /\ out' = Append(out, "Not in a git repository")
              /\ exitCalls' = Append(exitCalls, 1)
              /\ pc' = AfterExit("done")
              /\ terminated' = Stops
              /\ UNCHANGED <<diff, requests>>
       ELSE IF ~r.ok
         THEN /\ calls' = c2
              /\ Catch(o2, "Failed to perform code review:")
              /\ UNCHANGED <<diff, requests>>
       ELSE IF trim(r.text) = <<>>
         THEN /\ calls' = c2
              /\ diff' = r.text
              /\ out' = Append(o2, "No staged changes detected")
              /\ pc' = "done"
              /\ UNCHANGED <<requests, exitCalls, terminated>>
       ELSE /\ diff' = r.text
            /\ calls' = Append(c2, Call("performCodeReviewAI", <<r.text>>, NoText))
            /\ requests' = Append(requests, Request("performCodeReview", <<r.text>>,
                                                     ReviewTemperature, ReviewMaxTokens))
            /\ out' = Append(o2, "Performing AI code review...")
            /\ pc' = "awaitReview"
            /\ UNCHANGED <<exitCalls, terminated>>
  /\ UNCHANGED <<harness, entry, argv, printedCount, rlLog, disk, diskAtStart, invocation,
                 branchArg, execs, result, configModel, envModel, dispatched, currentBranch, commits, message,
                 answer, newMessage, finalMessage, linesRead, rlOpen, writes>>

\* the chat-completion call of performCodeReview settles; displayCodeReview asks its question
ReviewResponse ==
  /\ pc = "awaitReview"
  /\ \E resp \in ApiResponses, displayThrows \in BOOLEAN :
       /\ requests' = Replied(requests, resp)
       /\ IF resp.kind = "error"
            THEN /\ ~displayThrows
                 /\ Catch(out, "Failed to perform code review:")
                 /\ calls' = Returned(calls, Threw)
                 /\ UNCHANGED <<message, rlOpen, rlLog>>
          ELSE IF displayThrows
            THEN /\ Catch(out, "Failed to perform code review:")
                 /\ calls' = Append(Returned(calls, contentOf(resp)),
                                    Call("displayCodeReview", <<contentOf(resp)>>, Threw))
                 /\ UNCHANGED <<message, rlOpen, rlLog>>
            ELSE /\ message' = contentOf(resp)
                 /\ calls' = Append(Returned(calls, contentOf(resp)), Call("displayCodeReview", <<contentOf(resp)>>, NoText))
                 /\ out' = Append(out, "AI Code Review Results:")
                 /\ rlOpen' = rlOpen + 1
                 /\ rlLog' = Append(rlLog, "open")
                 /\ pc' = "AwaitingReviewSaveDecision"
                 /\ UNCHANGED <<exitCalls, terminated>>
  /\ UNCHANGED <<harness, entry, argv, printedCount, disk, diskAtStart, invocation,
                 branchArg, execs, result, configModel, envModel, dispatched, diff, currentBranch, commits,
                 answer, newMessage, finalMessage, linesRead, writes>>

\* the callback of the question of displayCodeReview, with saveCodeReview
ReviewAnswer ==
  /\ pc = "AwaitingReviewSaveDecision"
  /\ \E line \in FirstLines, ts \in SaveTimes, ok \in BOOLEAN :
       LET trimmedAnswer == toLowerCase(trim(line)) IN
       /\ answer' = line
       /\ linesRead' = linesRead + 1
       /\ rlOpen' = rlOpen - 1
       /\ rlLog' = Append(rlLog, "close")
       /\ IF isReviewSaveAnswer(trimmedAnswer)
            THEN /\ writes' = Append(writes, Write(reviewFilename(ts), message, ok))
                 /\ disk' = Saved(disk, reviewFilename(ts), message, ok)
                 /\ SaveResult(ok, <<"Code review saved to:">>, "Failed to save code review:")
            ELSE /\ ts = Pin(SaveTimes) /\ ok
                 /\ out' = Append(out, "Review not saved.")
                 /\ calls' = Returned(calls, RetVoid)
                 /\ pc' = "done"
                 /\ UNCHANGED <<writes, disk, exitCalls, terminated>>
  /\ UNCHANGED <<harness, entry, argv, printedCount, diskAtStart, invocation,
                 branchArg, execs, result, configModel, envModel, dispatched,
                 diff, currentBranch, commits, message, newMessage, finalMessage, requests>>

----------------------------------------------------------------------------
(* lib/git.ts: getMainBranch, getBranchCommits, getBranchDiff *)

\* a subprocess command that was run, the branch names interpolated into it and its outcome r
Exec(cmd, a, b, r) == [cmd |-> cmd, a |-> a, b |-> b, ok |-> r.ok, text |-> r.text]

\* the outcomes of a subprocess that does not fail
OkResults(texts) == [ok : {TRUE}, text : texts]

\* s.includes(w)
includes(s, w) == \E i \in 0..(Len(s) - Len(w)) : SubSeq(s, i + 1, i + Len(w)) = w

\* ---- commitChanges: the command line handed to the shell ----

\* the command line does not parse: the shell runs nothing
SyntaxError == [ok |-> FALSE, words |-> <<>>, subs |-> <<>>]

\* the text of the command being read, extended by t
extend(words, t) == [words EXCEPT ![Len(words)] = @ \o t]

\* the position of the backtick that closes the one at i, or 0
closing(s, i) ==
  IF \E j \in (i + 1)..Len(s) : s[j] = Backtick
    THEN CHOOSE j \in (i + 1)..Len(s) : s[j] = Backtick /\ \A k \in (i + 1)..(j - 1) : s[k] # Backtick
    ELSE 0

\* the position of the last character of the variable name that starts at i
nameEnd(s, i) ==
  CHOOSE j \in i..Len(s) :
    /\ \A k \in i..j : s[k] = "a"
    /\ j < Len(s) => s[j + 1] # "a"

\* w names a program that exists and may print something
isProgram(w) == w # <<>> /\ \A k \in 1..Len(w) : w[k] = "a"

\* How sh reads the rest of the command line `git commit -m ...` from position i on.
\* dq: inside double quotes; words: the texts of the commands read so far, the first being
\* the argument of -m; has: the command being read has a word; subs: the commands of the
\* command substitutions. Inside and outside double quotes `$name` is replaced by the
\* variable's value, `$$` by the process id and a backtick pair by the output of the
\* command between them; outside double quotes a semicolon ends the command.
RECURSIVE sh(_, _, _, _, _, _, _)
sh(s, i, dq, words, has, subs, env) ==
  IF i > Len(s)
    THEN IF dq THEN SyntaxError
         ELSE [ok |-> TRUE,
               words |-> IF has THEN words ELSE SubSeq(words, 1, Len(words) - 1),
               subs |-> subs]
  ELSE IF s[i] = "\""
    THEN sh(s, i + 1, ~dq, words, TRUE, subs, env)
  ELSE IF s[i] = Backtick
    THEN LET j == closing(s, i)
             command == SubSeq(s, i + 1, j - 1)
             inner == sh(command, 1, FALSE, << <<>> >>, FALSE, <<>>, env)
             output == IF inner.ok /\ \E k \in DOMAIN inner.words : isProgram(inner.words[k])
                         THEN env.o ELSE <<>>
         IN IF j = 0 THEN SyntaxError
            ELSE IF ~inner.ok /\ env.strict THEN SyntaxError
            ELSE sh(s, j + 1, dq, extend(words, output), has \/ dq \/ output # <<>>,
                    IF command = <<>> THEN subs ELSE Append(subs, command), env)
  ELSE IF s[i] = "$" /\ i < Len(s) /\ s[i + 1] = "a"
    THEN sh(s, nameEnd(s, i + 1) + 1, dq, extend(words, env.v), has \/ dq \/ env.v # <<>>,
            subs, env)
  ELSE IF s[i] = "$" /\ i < Len(s) /\ s[i + 1] = "$"
    THEN sh(s, i + 2, dq, extend(words, <<"1">>), TRUE, subs, env)
  ELSE IF s[i] = "$" /\ i < Len(s) /\ s[i + 1] = "\"" /\ ~dq /\ env.bash
    THEN sh(s, i + 1, dq, words, has, subs, env)
  ELSE IF s[i] = ";" /\ ~dq
    THEN IF ~has THEN SyntaxError
         ELSE sh(s, i + 1, dq, Append(words, <<>>), FALSE, subs, env)
  ELSE sh(s, i + 1, dq, extend(words, <<s[i]>>), TRUE, subs, env)

\* `git commit -m "${message}"` as the shell reads it
commitCommand(m, env) == sh(<<"\"">> \o m \o <<"\"">>, 1, FALSE, << <<>> >>, FALSE, <<>>, env)

\* commitChanges(message) called directly: execSync hands the command line to the shell;
\* a is the argument of -m that git receives, b the other commands the shell runs
CommitChangesCall ==
  /\ pc = "commitChanges"
  /\ \E env \in ShellEnvs, ok \in BOOLEAN :
       LET r == commitCommand(message, env) IN
       /\ ~r.ok => ok
       /\ execs' = Append(execs, [cmd |-> "git commit -m",
                                  a |-> IF r.ok THEN r.words[1] ELSE NoText,
                                  b |-> IF r.ok THEN r.subs \o Tail(r.words) ELSE <<>>,
                                  ok |-> r.ok /\ ok,
                                  text |-> <<>>])
       /\ result' = IF r.ok /\ ok THEN RetVoid ELSE Threw
  /\ pc' = "done"
  /\ UNCHANGED <<harness, entry, argv, printedCount, rlLog, disk, diskAtStart, invocation,
                 branchArg, configModel, envModel, dispatched, diff,
                 currentBranch, commits, message, answer, newMessage, finalMessage, linesRead,
                 rlOpen, calls, requests, out, writes, exitCalls, terminated>>

\* getMainBranch when `git branch -r` has the outcome l
getMainBranch(l) ==
  IF ~l.ok THEN BranchMain
  ELSE IF includes(l.text, Origin \o BranchMain) THEN BranchMain
  ELSE IF includes(l.text, Origin \o BranchMaster) THEN BranchMaster
  ELSE IF includes(l.text, Origin \o BranchDevelop) THEN BranchDevelop
  ELSE BranchMain

\* branch || getCurrentBranch() reads the current branch
readsCurrent(branch) == branch = NoText \/ falsy(branch)

CompareCmd(kind) == IF kind = "log" THEN "git log a..b --oneline" ELSE "git diff a...b"
FallbackCmd(kind) == IF kind = "log" THEN "git log --oneline -10" ELSE "git diff HEAD~5..HEAD"

\* mutant: there is no fallback command, a failed comparison propagates
compareReadNoFallback(kind, branch, b, l, g, f) ==
  LET e1 == IF readsCurrent(branch)
              THEN <<Exec("git branch --show-current", <<>>, <<>>, b)>> ELSE <<>>
      cur == IF readsCurrent(branch) THEN trim(b.text) ELSE branch
      e3 == e1 \o <<Exec("git branch -r", <<>>, <<>>, l),
                    Exec(CompareCmd(kind), getMainBranch(l), cur, g)>>
  IN IF readsCurrent(branch) /\ ~b.ok THEN [execs |-> e1, ret |-> Threw]
     ELSE [execs |-> e3, ret |-> RetOf(g)]

\* the body shared by getBranchCommits (kind "log") and getBranchDiff (kind "diff"): the commands
\* run and the value returned (Threw: an exception leaves the function) when the subprocesses
\* have the outcomes b (current branch), l (remote listing), g (comparison) and f (fallback)
compareRead(kind, branch, b, l, g, f) ==
  LET e1 == IF readsCurrent(branch)
              THEN <<Exec("git branch --show-current", <<>>, <<>>, b)>> ELSE <<>>
      cur == IF readsCurrent(branch) THEN trim(b.text) ELSE branch
      e3 == e1 \o <<Exec("git branch -r", <<>>, <<>>, l),
                    Exec(CompareCmd(kind), getMainBranch(l), cur, g)>>
  IN IF readsCurrent(branch) /\ ~b.ok THEN [execs |-> e1, ret |-> Threw]
     ELSE IF g.ok THEN [execs |-> e3, ret |-> g.text]
     ELSE [execs |-> Append(e3, Exec(FallbackCmd(kind), <<>>, <<>>, f)), ret |-> RetOf(f)]

getBranchCommits(branch, b, l, g, f) == compareRead("log", branch, b, l, g, f)
getBranchDiff(branch, b, l, g, f) == compareRead("diff", branch, b, l, g, f)

\* an outcome that is never looked at
Unused == [ok |-> TRUE, text |-> <<>>]

\* getMainBranch called directly
GetMainBranchCall ==
  /\ pc = "getMainBranch"
  /\ \E l \in GitResults(Listings) :
       /\ execs' = Append(execs, Exec("git branch -r", <<>>, <<>>, l))
       /\ result' = getMainBranch(l)
  /\ pc' = "done"
  /\ UNCHANGED <<harness, entry, argv, printedCount, rlLog, disk, diskAtStart, invocation,
                 branchArg, configModel, envModel, dispatched, diff,
                 currentBranch, commits, message, answer, newMessage, finalMessage, linesRead,
                 rlOpen, calls, requests, out, writes, exitCalls, terminated>>

\* getBranchCommits(branchArg) or getBranchDiff(branchArg) called directly
BranchReadCall ==
  /\ pc \in {"getBranchCommits", "getBranchDiff"}
  /\ \E b \in GitResults(BranchOutputs), l \in GitResults(DirectListings),
        g \in GitResults(IF pc = "getBranchCommits" THEN CommitTexts ELSE DiffTexts),
        f \in GitResults(IF pc = "getBranchCommits" THEN CommitTexts ELSE DiffTexts) :
       LET r == IF pc = "getBranchCommits" THEN getBranchCommits(branchArg, b, l, g, f)
                ELSE getBranchDiff(branchArg, b, l, g, f)
       IN /\ readsCurrent(branchArg) \/ b = Unused
          /\ (readsCurrent(branchArg) /\ ~b.ok) => (l = Unused /\ g = Unused)
          /\ g.ok => f = Unused
          /\ execs' = execs \o r.execs
          /\ result' = r.ret
  /\ pc' = "done"
  /\ UNCHANGED <<harness, entry, argv, printedCount, rlLog, disk, diskAtStart, invocation,
                 branchArg, configModel, envModel, dispatched, diff,
                 currentBranch, commits, message, answer, newMessage, finalMessage, linesRead,
                 rlOpen, calls, requests, out, writes, exitCalls, terminated>>

----------------------------------------------------------------------------
(* lib/pr.ts: generatePRDescription *)

\* mutant: develop is missing from the list of main branches
TrunkNamesNoDevelop == {BranchMain, BranchMaster}

TrunkNames == {BranchMain, BranchMaster, BranchDevelop}

\* mutant: the explicit return after process.exit(1) is missing
PRStartNoReturn ==
  /\ pc = "generatePRDescription"
  /\ \E isRepo \in BOOLEAN, r \in GitResults(BranchNames) :
       LET c1 == Append(calls, Call("isGitRepository", <<>>, IF isRepo THEN RetTrue ELSE RetFalse))
           c2 == Append(c1, Call("getCurrentBranch", <<>>, IF r.ok THEN trim(r.text) ELSE Threw))
           o1 == IF isRepo THEN out ELSE Append(out, "Not in a git repository")
           e1 == IF isRepo THEN exitCalls ELSE Append(exitCalls, 1)
       IN
       IF ~isRepo /\ Stops
         THEN /\ r = Pin(GitResults(BranchNames))
              /\ calls' = c1
              /\ out' = o1
              /\ exitCalls' = e1
              /\ pc' = "exited"
              /\ terminated' = TRUE
              /\ UNCHANGED currentBranch
       ELSE IF ~r.ok
         THEN /\ calls' = c2
              /\ out' = Append(o1, "Failed to generate PR description:")
              /\ exitCalls' = Append(e1, 1)
              /\ pc' = AfterExit("done")
              /\ terminated' = Stops
              /\ UNCHANGED currentBranch
       ELSE /\ calls' = c2
            /\ currentBranch' = trim(r.text)
            /\ IF trim(r.text) \in TrunkNames
                 THEN /\ out' = Append(o1, "You appear to be on a main branch.")
                      /\ pc' = "done"
                 ELSE /\ out' = Append(o1, "Analyzing branch:")
                      /\ pc' = "prCommits"
            /\ exitCalls' = e1
            /\ UNCHANGED terminated
  /\ UNCHANGED <<harness, entry, argv, printedCount, rlLog, disk, diskAtStart, invocation,
                 branchArg, execs, result, configModel, envModel, dispatched, diff, commits, message,
                 answer, newMessage, finalMessage, linesRead, rlOpen, requests, writes>>

PRStart ==
  /\ pc = "generatePRDescription"
  /\ \E isRepo \in BOOLEAN, r \in GitResults(BranchNames) :
       LET c1 == Append(calls, Call("isGitRepository", <<>>, IF isRepo THEN RetTrue ELSE RetFalse))
           c2 == Append(c1, Call("getCurrentBranch", <<>>, IF r.ok THEN trim(r.text) ELSE Threw))
       IN
       IF ~isRepo
         THEN /\ r = Pin(GitResults(BranchNames))
              /\ calls' = c1
              /\ out' = Append(out, "Not in a git repository")
              /\ exitCalls' = Append(exitCalls, 1)
              /\ pc' = AfterExit("done")
              /\ terminated' = Stops
              /\ UNCHANGED currentBranch
       ELSE IF ~r.ok
         THEN /\ calls' = c2
              /\ Catch(out, "Failed to generate PR description:")
              /\ UNCHANGED currentBranch
       ELSE /\ calls' = c2
            /\ currentBranch' = trim(r.text)
            /\ IF trim(r.text) \in TrunkNames
                 THEN /\ out' = Append(out, "You appear to be on a main branch.")
                      /\ pc' = "done"
                 ELSE /\ out' = Append(out, "Analyzing branch:")
                      /\ pc' = "prCommits"
            /\ UNCHANGED <<exitCalls, terminated>>
  /\ UNCHANGED <<harness, entry, argv, printedCount, rlLog, disk, diskAtStart, invocation,
                 branchArg, execs, result, configModel, envModel, dispatched, diff, commits, message,
                 answer, newMessage, finalMessage, linesRead, rlOpen, requests, writes>>

\* what the version-control tool can answer while a PR flow runs: the current branch read
\* again (it may have changed since the flow started), the remote listing, a fallback text
RereadOutputs == IF Plain THEN {currentBranch, <<"g">>} ELSE {currentBranch}
FlowListings == IF Plain THEN GitResults({listing(<<Origin \o BranchMain>>)})
                ELSE OkResults({listing(<<Origin \o BranchMain>>)})

\* String.prototype.split('\n'): the pieces of s between the line ends
RECURSIVE split(_)
split(s) ==
  IF \A i \in 1..Len(s) : s[i] # "\n" THEN <<s>>
  ELSE LET n == CHOOSE i \in 1..Len(s) : s[i] = "\n" /\ \A j \in 1..(i - 1) : s[j] # "\n" IN
       <<SubSeq(s, 1, n - 1)>> \o split(SubSeq(s, n + 1, Len(s)))

\* mutant: the filter keeps every line, the blank ones too
keepsEveryLine(line) == TRUE

\* line => line.trim(): a line is kept when what is left of it after trimming is not empty
keepsLine(line) == ~falsy(trim(line))

\* commits.split('\n').filter(line => line.trim()).length
commitCount(s) == Len(SelectSeq(split(s), keepsLine))

\* const commits = getBranchCommits() and the check of its result
PRReadCommits ==
  /\ pc = "prCommits"
  /\ \E b \in GitResults(RereadOutputs), l \in FlowListings, g \in GitResults(CommitLists),
        f \in GitResults({<<"c">>}) :
       LET r == getBranchCommits(NoText, b, l, g, f) IN
       /\ ~b.ok => (l = Pin(FlowListings) /\ g = Pin(GitResults(CommitLists)))
       /\ g.ok => f = Pin(GitResults({<<"c">>}))
       /\ calls' = Append(calls, Call("getBranchCommits", <<>>, r.ret))
       /\ execs' = execs \o r.execs
       /\ IF r.ret = Threw
            THEN /\ Catch(out, "Failed to generate PR description:")
                 /\ UNCHANGED <<commits, printedCount>>
          ELSE IF trim(r.ret) = <<>>
            THEN /\ commits' = r.ret
                 /\ UNCHANGED printedCount
                 /\ out' = Append(out, "No commits found in this branch compared to main branch")
                 /\ pc' = "done"
                 /\ UNCHANGED <<exitCalls, terminated>>
          ELSE /\ commits' = r.ret
               /\ printedCount' = commitCount(r.ret)
               /\ out' = Append(out, "Found commit(s) in this branch")
               /\ pc' = "prDiff"
               /\ UNCHANGED <<exitCalls, terminated>>
  /\ UNCHANGED <<harness, entry, argv, rlLog, disk, diskAtStart, invocation,
                 branchArg, result, configModel, envModel, dispatched, diff,
                 currentBranch, message, answer, newMessage, finalMessage, linesRead, rlOpen,
                 requests, writes>>

\* mutant: the diff and the commits are passed to the generation in the wrong order
PRReadDiffSwapped ==
  /\ pc = "prDiff"
  /\ \E b \in GitResults(RereadOutputs), l \in FlowListings, g \in GitResults(StagedDiffs),
        f \in GitResults({<<"d">>}) :
       LET r == getBranchDiff(NoText, b, l, g, f)
           c1 == Append(calls, Call("getBranchDiff", <<>>, r.ret))
       IN
       /\ ~b.ok => (l = Pin(FlowListings) /\ g = Pin(GitResults(StagedDiffs)))
       /\ g.ok => f = Pin(GitResults({<<"d">>}))
       /\ execs' = execs \o r.execs
       /\ IF r.ret = Threw
            THEN /\ calls' = c1
                 /\ Catch(out, "Failed to generate PR description:")
                 /\ UNCHANGED <<diff, requests>>
          ELSE IF trim(r.ret) = <<>>
            THEN /\ calls' = c1
                 /\ diff' = r.ret
                 /\ out' = Append(out, "No changes found in this branch")
                 /\ pc' = "done"
                 /\ UNCHANGED <<requests, exitCalls, terminated>>
          ELSE /\ diff' = r.ret
               /\ calls' = Append(c1, Call("generatePRDescriptionAI",
                                           <<r.ret, commits, currentBranch>>, NoText))
               /\ requests' = Append(requests, Request("generatePRDescription",
                                                        <<r.ret, commits, currentBranch>>,
                                                        PRTemperature, PRMaxTokens))
               /\ out' = Append(out, "Generating PR description...")
               /\ pc' = "awaitPRDescription"
               /\ UNCHANGED <<exitCalls, terminated>>
  /\ UNCHANGED <<harness, entry, argv, printedCount, rlLog, disk, diskAtStart, invocation,
                 branchArg, result, configModel, envModel, dispatched,
                 currentBranch, commits, message, answer, newMessage, finalMessage, linesRead,
                 rlOpen, writes>>

\* const diff = getBranchDiff(), the check of its result and the call of the generation
PRReadDiff ==
  /\ pc = "prDiff"
  /\ \E b \in GitResults(RereadOutputs), l \in FlowListings, g \in GitResults(StagedDiffs),
        f \in GitResults({<<"d">>}) :
       LET r == getBranchDiff(NoText, b, l, g, f)
           c1 == Append(calls, Call("getBranchDiff", <<>>, r.ret))
       IN
       /\ ~b.ok => (l = Pin(FlowListings) /\ g = Pin(GitResults(StagedDiffs)))
       /\ g.ok => f = Pin(GitResults({<<"d">>}))
       /\ execs' = execs \o r.execs
       /\ IF r.ret = Threw
            THEN /\ calls' = c1
                 /\ Catch(out, "Failed to generate PR description:")
                 /\ UNCHANGED <<diff, requests>>
          ELSE IF trim(r.ret) = <<>>
            THEN /\ calls' = c1
                 /\ diff' = r.ret
                 /\ out' = Append(out, "No changes found in this branch")
                 /\ pc' = "done"
                 /\ UNCHANGED <<requests, exitCalls, terminated>>
          ELSE /\ diff' = r.ret
               /\ calls' = Append(c1, Call("generatePRDescriptionAI",
                                           <<commits, r.ret, currentBranch>>, NoText))
               /\ requests' = Append(requests, Request("generatePRDescription",
                                                        <<commits, r.ret, currentBranch>>,
                                                        PRTemperature, PRMaxTokens))
               /\ out' = Append(out, "Generating PR description...")
               /\ pc' = "awaitPRDescription"
               /\ UNCHANGED <<exitCalls, terminated>>
  /\ UNCHANGED <<harness, entry, argv, printedCount, rlLog, disk, diskAtStart, invocation,
                 branchArg, result, configModel, envModel, dispatched,
                 currentBranch, commits, message, answer, newMessage, finalMessage, linesRead,
                 rlOpen, writes>>

\* the chat-completion call of generatePRDescription settles; confirmPRDescription asks
PRResponse ==
  /\ pc = "awaitPRDescription"
  /\ \E resp \in ApiResponses, confirmThrows \in BOOLEAN :
       /\ requests' = Replied(requests, resp)
       /\ IF resp.kind = "error"
            THEN /\ ~confirmThrows
                 /\ Catch(out, "Failed to generate PR description:")
                 /\ calls' = Returned(calls, Threw)
                 /\ UNCHANGED <<message, rlOpen, rlLog>>
          ELSE IF confirmThrows
            THEN /\ Catch(out, "Failed to generate PR description:")
                 /\ calls' = Append(Returned(calls, contentOf(resp)),
                                    Call("confirmPRDescription", <<contentOf(resp), currentBranch>>,
                                         Threw))
                 /\ UNCHANGED <<message, rlOpen, rlLog>>
            ELSE /\ message' = contentOf(resp)
                 /\ calls' = Append(Returned(calls, contentOf(resp)), Call("confirmPRDescription",
                                                <<contentOf(resp), currentBranch>>, NoText))
                 /\ out' = Append(out, "Generated PR description for branch:")
                 /\ rlOpen' = rlOpen + 1
                 /\ rlLog' = Append(rlLog, "open")
                 /\ pc' = "AwaitingSaveDecision"
                 /\ UNCHANGED <<exitCalls, terminated>>
  /\ UNCHANGED <<harness, entry, argv, printedCount, disk, diskAtStart, invocation,
                 branchArg, execs, result, configModel, envModel, dispatched, diff, currentBranch, commits,
                 answer, newMessage, finalMessage, linesRead, writes>>

\* the callback of the question of confirmPRDescription, with savePRDescription / editPRDescription
PRAnswer ==
  /\ pc = "AwaitingSaveDecision"
  /\ \E line \in FirstLines, ok \in BOOLEAN :
       LET trimmedAnswer == toLowerCase(trim(line)) IN
       /\ answer' = line
       /\ linesRead' = linesRead + 1
       /\ rlOpen' = rlOpen - 1
       /\ rlLog' = Append(rlLog, "close")
       /\ IF isSaveAnswer(trimmedAnswer)
            THEN /\ writes' = Append(writes, Write(prFilename(currentBranch), message, ok))
                 /\ disk' = Saved(disk, prFilename(currentBranch), message, ok)
                 /\ SaveResult(ok, <<"PR description saved to:">>,
                               "Failed to save PR description:")
          ELSE IF isEditAnswer(trimmedAnswer)
            THEN /\ writes' = editPRDescription(writes, currentBranch, message, ok)
                 /\ disk' = Saved(disk, prFilename(currentBranch), message, ok)
                 /\ SaveResult(ok, <<"PR description saved to:",
                                     "Edit the file and run the command again if needed.">>,
                               "Failed to save PR description for editing:")
          ELSE /\ ok
               /\ out' = Append(out, "PR description not saved.")
               /\ calls' = Returned(calls, RetVoid)
               /\ pc' = "done"
               /\ UNCHANGED <<writes, disk, exitCalls, terminated>>
  /\ UNCHANGED <<harness, entry, argv, printedCount, diskAtStart, invocation,
                 branchArg, execs, result, configModel, envModel, dispatched,
                 diff, currentBranch, commits, message, newMessage, finalMessage, requests>>

----------------------------------------------------------------------------

\* The user runs the tool again in the same working directory, after an invocation that
\* saved a file has ended: a new process starts, the files are as the last one left them.
Reinvoke ==
  /\ harness = "cli"
  /\ pc \in {"done", "exited"}
  /\ invocation < MaxInvocations
  /\ disk # {}
  /\ invocation' = invocation + 1
  /\ diskAtStart' = disk
  /\ argv' \in LaterArgLists
  /\ envModel' = configModel
  /\ pc' = entry
  /\ dispatched' = "none"
  /\ diff' = NoText
  /\ currentBranch' = NoText
  /\ commits' = NoText
  /\ message' = NoText
  /\ answer' = NoText
  /\ newMessage' = NoText
  /\ finalMessage' = NoText
  /\ linesRead' = 0
  /\ rlOpen' = 0
  /\ calls' = <<>>
  /\ requests' = <<>>
  /\ out' = <<>>
  /\ writes' = <<>>
  /\ exitCalls' = <<>>
  /\ execs' = <<>>
  /\ result' = NoText
  /\ printedCount' = -1
  /\ rlLog' = <<>>
  /\ terminated' = FALSE
  /\ UNCHANGED <<harness, entry, configModel, branchArg, disk>>

Next ==
  \/ CommitChangesCall
  \/ Reinvoke
  \/ Main
  \/ CallConfirm
  \/ InitialAnswer
  \/ ReplacementText
  \/ RunCommit
  \/ CommitMessageResponse
  \/ CommitChanges
  \/ ReviewStart
  \/ ReviewResponse
  \/ ReviewAnswer
  \/ PRStart
  \/ PRReadCommits
  \/ PRReadDiff
  \/ PRResponse
  \/ PRAnswer
  \/ GetMainBranchCall
  \/ BranchReadCall
  \/ CallConfirmPR
  \/ CallDisplayReview

Spec == Init /\ [][Next]_vars

----------------------------------------------------------------------------
(* Vocabulary of the properties, stated without the program's own helpers *)

Blank == {" ", "\n", "\t"}

IsBlankText(s) == \A i \in 1..Len(s) : s[i] \in Blank

\* t is s without its leading and trailing blanks
IsStripOf(t, s) ==
  \E a \in 0..Len(s) : \E b \in 0..(Len(s) - a) :
    /\ Len(t) = Len(s) - a - b
    /\ \A k \in 1..a : s[k] \in Blank
    /\ \A k \in (Len(s) - b + 1)..Len(s) : s[k] \in Blank
    /\ \A k \in 1..Len(t) : t[k] = s[a + k]
    /\ Len(t) > 0 => (t[1] \notin Blank /\ t[Len(t)] \notin Blank)

Upper(c) ==
  CASE c = "y" -> "Y" [] c = "e" -> "E" [] c = "s" -> "S"
    [] c = "n" -> "N" [] c = "o" -> "O" [] c = "d" -> "D" [] c = "i" -> "I"
    [] c = "t" -> "T" [] OTHER -> c

\* line is word in some upper/lower-case spelling, with blanks around it
Spells(line, word) ==
  \E a \in 0..Len(line) :
    /\ a + Len(word) <= Len(line)
    /\ \A k \in 1..a : line[k] \in Blank
    /\ \A k \in (a + Len(word) + 1)..Len(line) : line[k] \in Blank
    /\ \A k \in 1..Len(word) : line[a + k] \in {word[k], Upper(word[k])}

SaysAccept(line) ==
  Spells(line, <<>>) \/ Spells(line, <<"y">>) \/ Spells(line, <<"y", "e", "s">>)
SaysReject(line) == Spells(line, <<"n">>) \/ Spells(line, <<"n", "o">>)

CallsOf(op) == {i \in DOMAIN calls : calls[i].op = op}
Times(op) == Cardinality(CallsOf(op))

InCommitFlow == dispatched = "runCommit"
InReviewFlow == dispatched = "runReview" \/ entry = "performCodeReview"
InPRFlow == dispatched = "runPR" \/ entry = "generatePRDescription"

\* the staged diff the version-control tool returned in this run, if it returned one
StagedDiffRead(d) ==
  \E i \in CallsOf("getStagedDiff") : calls[i].ret = d /\ d # Threw

----------------------------------------------------------------------------
(* C1: in the commit flow, for every non-empty staged diff, the generation *)
(* step is called exactly once with that diff; the confirmation step is    *)
(* called at most once, and exactly once when generation returned, with    *)
(* exactly the generated text; the commit step is called at most once, and *)
(* exactly once when the confirmation resolved and the flow has finished,  *)
(* with exactly the text the confirmation resolved to.                     *)
C1_CommitFlowWiring ==
  \A d \in DiffTexts :
    (InCommitFlow /\ StagedDiffRead(d) /\ d # <<>>) =>
      /\ Times("generateCommitMessage") = 1
      /\ \A i \in CallsOf("generateCommitMessage") :
           /\ calls[i].args = <<d>>
           /\ (calls[i].ret \notin {NoText, Threw}) =>
                /\ Times("confirmCommitMessage") = 1
                /\ \A j \in CallsOf("confirmCommitMessage") : calls[j].args = <<calls[i].ret>>
           /\ (calls[i].ret \in {NoText, Threw}) => Times("confirmCommitMessage") = 0
      /\ Times("commitChanges") <= 1
      /\ \A j \in CallsOf("confirmCommitMessage") :
           /\ (calls[j].ret \in {NoText, Threw}) => Times("commitChanges") = 0
           /\ (calls[j].ret \notin {NoText, Threw} /\ pc # "Resolved") => Times("commitChanges") = 1
           /\ \A k \in CallsOf("commitChanges") : calls[k].args = <<calls[j].ret>>
      /\ Times("confirmCommitMessage") = 0 => Times("commitChanges") = 0

\* the commit step has received the empty text the confirmation resolved to
C1_Witness ==
  /\ InCommitFlow
  /\ pc = "done"
  /\ \E d \in DiffTexts : StagedDiffRead(d) /\ d # <<>>
  /\ \E k \in CallsOf("commitChanges") : calls[k].args = << <<>> >>

(* C2 as stated: an accept answer (empty, y, yes in any case, blanks       *)
(* around it) resolves to the original message without a second read; a    *)
(* reject answer (n, no) reads a second line and resolves to that line     *)
(* when it is non-empty and to the original message when it is empty.      *)
C2_Original ==
  (pc = "Resolved") =>
    /\ SaysAccept(answer) => (finalMessage = message /\ newMessage = NoText)
    /\ SaysReject(answer) =>
         /\ newMessage # NoText
         /\ finalMessage = IF newMessage # <<>> THEN newMessage ELSE message

(* C2 (amended): an accept answer resolves to the original message without *)
(* a second read; a reject answer reads a second line and resolves to that *)
(* line without its leading and trailing whitespace when something remains,*)
(* and to the original message when the line is empty or only whitespace.  *)
C2_ConfirmAcceptReject ==
  (pc = "Resolved") =>
    /\ SaysAccept(answer) => (finalMessage = message /\ newMessage = NoText /\ linesRead = 1)
    /\ SaysReject(answer) =>
         /\ newMessage # NoText
         /\ linesRead = 2
         /\ IF IsBlankText(newMessage)
              THEN finalMessage = message
              ELSE IsStripOf(finalMessage, newMessage)

\* a mixed-case, padded "no" was answered with a padded replacement
C2_Witness ==
  /\ pc = "Resolved"
  /\ answer = <<"N", "o", " ">>
  /\ newMessage = <<" ", "r", " ">>
  /\ finalMessage = <<"r">>

(* C3 as stated: a first line that is neither an accept nor a reject       *)
(* answer resolves at once to that line character for character; a         *)
(* non-empty replacement typed after n/no is returned character for        *)
(* character.                                                              *)
C3_Original ==
  (pc = "Resolved") =>
    /\ (~SaysAccept(answer) /\ ~SaysReject(answer)) =>
         (finalMessage = answer /\ newMessage = NoText)
    /\ (SaysReject(answer) /\ newMessage # <<>>) => finalMessage = newMessage

(* C3 (amended): a first line that is neither an accept nor a reject       *)
(* answer resolves at once, without a second read, to that line with its   *)
(* leading and trailing whitespace removed and every other character kept; *)
(* a replacement typed after n/no that is not only whitespace is returned  *)
(* with its leading and trailing whitespace removed.                       *)
C3_ConfirmCustomText ==
  (pc = "Resolved") =>
    /\ (~SaysAccept(answer) /\ ~SaysReject(answer)) =>
         /\ IsStripOf(finalMessage, answer)
         /\ finalMessage # <<>>
         /\ newMessage = NoText
         /\ linesRead = 1
    /\ (SaysReject(answer) /\ ~IsBlankText(newMessage)) =>
         (IsStripOf(finalMessage, newMessage) /\ finalMessage # <<>>)

\* a custom line with blanks on both sides was typed directly
C3_Witness ==
  /\ pc = "Resolved"
  /\ answer = <<" ", "x", " ">>
  /\ finalMessage = <<"x">>
  /\ newMessage = NoText

(* C4 as stated: in the commit flow and in the review flow, a staged diff  *)
(* that is empty or only whitespace never leads to a generation call.      *)
C4_Original ==
  \A d \in DiffTexts :
    ((InCommitFlow \/ InReviewFlow) /\ StagedDiffRead(d) /\ IsBlankText(d)) =>
      /\ requests = <<>>
      /\ Times("generateCommitMessage") = 0
      /\ Times("performCodeReviewAI") = 0

(* C4 (amended): in the review flow a staged diff that is empty or only    *)
(* whitespace never leads to a generation call; in the commit flow an      *)
(* empty staged diff never leads to a generation call, while a non-empty   *)
(* diff of only whitespace is sent to generation like any other diff.      *)
C4_EmptyDiffShortCircuits ==
  \A d \in DiffTexts :
    /\ (InReviewFlow /\ StagedDiffRead(d) /\ IsBlankText(d)) =>
         (requests = <<>> /\ Times("performCodeReviewAI") = 0 /\ pc = "done")
    /\ (InCommitFlow /\ StagedDiffRead(d) /\ d = <<>>) =>
         (requests = <<>> /\ Times("generateCommitMessage") = 0)
    /\ (InCommitFlow /\ StagedDiffRead(d) /\ d # <<>>) =>
         (Len(requests) = 1 /\ requests[1].inputs = <<d>>)

\* the review flow has returned on a diff of one blank
C4_Witness ==
  /\ InReviewFlow
  /\ StagedDiffRead(<<" ">>)
  /\ pc = "done"
  /\ requests = <<>>

(* C5: in the commit flow with an empty staged diff the process reports    *)
(* 'No staged changes detected.' and terminates with exit status 0, and    *)
(* the generation, confirmation and commit steps are never invoked.        *)
C5_EmptyDiffExitsZero ==
  (InCommitFlow /\ StagedDiffRead(<<>>)) =>
    /\ terminated
    /\ pc = "exited"
    /\ exitCalls = <<0>>
    /\ out = <<"No staged changes detected.">>
    /\ Len(calls) = 1
    /\ Times("generateCommitMessage") = 0
    /\ Times("confirmCommitMessage") = 0
    /\ Times("commitChanges") = 0
    /\ requests = <<>>
    /\ linesRead = 0

\* the commit flow has read an empty staged diff
C5_Witness ==
  /\ InCommitFlow
  /\ StagedDiffRead(<<>>)
  /\ exitCalls = <<0>>

(* C6: in the PR flow, when the current branch is main, master or develop, *)
(* a warning is printed and the flow returns without any call to           *)
(* getBranchCommits, getBranchDiff, the PR generation step or the PR       *)
(* confirmation step, and without any call of process.exit with a non-zero *)
(* status.                                                                 *)
C6_TrunkBranchOnlyWarns ==
  \A b \in {<<"m", "a", "i", "n">>, <<"m", "a", "s", "t", "e", "r">>,
            <<"d", "e", "v", "e", "l", "o", "p">>} :
    (InPRFlow /\ \E i \in CallsOf("getCurrentBranch") : calls[i].ret = b) =>
      /\ out = <<"You appear to be on a main branch.">>
      /\ Times("getBranchCommits") = 0
      /\ Times("getBranchDiff") = 0
      /\ Times("generatePRDescriptionAI") = 0
      /\ Times("confirmPRDescription") = 0
      /\ requests = <<>>
      /\ linesRead = 0
      /\ writes = <<>>
      /\ \A k \in DOMAIN exitCalls : exitCalls[k] = 0
      /\ pc = "done"
      /\ ~terminated

\* the PR flow has returned on the branch develop
C6_Witness ==
  /\ InPRFlow
  /\ \E i \in CallsOf("getCurrentBranch") : calls[i].ret = <<"d", "e", "v", "e", "l", "o", "p">>
  /\ pc = "done"

IsFlagLike(a) == Len(a) > 0 /\ a[1] = "-"
ModelFlagWord == <<"-", "-", "model">>
HelpWords == {<<"help">>, <<"-", "-", "help">>, <<"-", "h">>}
OperationWords == {<<"commit">>, <<"pr">>, <<"review">>, <<"help">>}

\* the positions of arguments that are the <name> of a --model flag, or may be read as one
ModelNameAt == {i \in DOMAIN argv : i > 1 /\ argv[i - 1] = ModelFlagWord}

\* the positions of flag-like arguments that are not --help, -h, --model or the name after it
UnknownFlagAt ==
  {i \in DOMAIN argv :
     /\ IsFlagLike(argv[i])
     /\ argv[i] \notin HelpWords
     /\ argv[i] # ModelFlagWord
     /\ i \notin ModelNameAt}

\* the positions of unrecognized arguments that are not flag-like
UnknownWordAt ==
  {i \in DOMAIN argv :
     ~IsFlagLike(argv[i]) /\ argv[i] \notin OperationWords /\ i \notin ModelNameAt}

(* C8 as stated: an argument that starts with '-' and is not --help, -h or *)
(* --model <name> makes the program print the usage text and terminate     *)
(* with status 1 without running any flow; an unrecognized argument that   *)
(* does not start with '-' leads to the commit flow.                       *)
C8_UnknownFlagPrintsUsage ==
  (dispatched # "none") =>
    /\ (UnknownFlagAt # {}) =>
         /\ dispatched = "showHelpAndExit"
         /\ out = <<"usage">>
         /\ exitCalls = <<1>>
         /\ terminated
         /\ calls = <<>>
    /\ (UnknownFlagAt = {} /\ UnknownWordAt # {}
          /\ \A i \in DOMAIN argv : i \in UnknownWordAt \/ i \in ModelNameAt
                                      \/ argv[i] = ModelFlagWord) =>
         dispatched = "runCommit"

FlowOf(word) ==
  CASE word = <<"commit">> -> "runCommit"
    [] word = <<"pr">> -> "runPR"
    [] word = <<"review">> -> "runReview"
    [] word = <<"help">> -> "showHelp"

(* C9 as stated: the operation run is the one named by the first non-flag  *)
(* argument: in an argument list of operation names the first one is       *)
(* dispatched, and with no argument at all the commit flow runs.           *)
C9_FirstOperationDispatched ==
  (dispatched # "none") =>
    /\ (argv # <<>> /\ \A i \in DOMAIN argv : argv[i] \in OperationWords) =>
         dispatched = FlowOf(argv[1])
    /\ (argv = <<>>) => dispatched = "runCommit"

ConfiguredOrDefault ==
  IF configModel.set /\ configModel.val # <<>> THEN configModel.val
  ELSE <<"gpt-3.5-turbo">>

ModelFlagAt == {i \in DOMAIN argv : argv[i] = ModelFlagWord}

HasRef(ref, s) ==
  \E i \in 1..Len(s) :
    /\ i + Len(ref) - 1 <= Len(s)
    /\ \A k \in 1..Len(ref) : s[i + k - 1] = ref[k]
    /\ i > 1 => s[i - 1] \in Blank
    /\ i + Len(ref) <= Len(s) => s[i + Len(ref)] \in Blank

RefMain == <<"o", "r", "i", "g", "i", "n", "/", "m", "a", "i", "n">>
RefMaster == <<"o", "r", "i", "g", "i", "n", "/", "m", "a", "s", "t", "e", "r">>
RefDevelop == <<"o", "r", "i", "g", "i", "n", "/", "d", "e", "v", "e", "l", "o", "p">>

\* the trunk branch the listing command's outcome e stands for
TrunkFor(e) ==
  IF ~e.ok THEN <<"m", "a", "i", "n">>
  ELSE IF HasRef(RefMain, e.text) THEN <<"m", "a", "i", "n">>
  ELSE IF HasRef(RefMaster, e.text) THEN <<"m", "a", "s", "t", "e", "r">>
  ELSE IF HasRef(RefDevelop, e.text) THEN <<"d", "e", "v", "e", "l", "o", "p">>
  ELSE <<"m", "a", "i", "n">>

ListingAt == {i \in DOMAIN execs : execs[i].cmd = "git branch -r"}

(* C11 as stated: for every remote-branch listing getMainBranch returns    *)
(* 'main' if the listing contains the ref origin/main, otherwise 'master'  *)
(* if it contains the ref origin/master, otherwise 'develop' if it         *)
(* contains the ref origin/develop, otherwise 'main'; it returns 'main'    *)
(* and raises nothing when the listing command fails.                      *)
C11_TrunkDetection ==
  (entry = "getMainBranch" /\ pc = "done") =>
    /\ Len(execs) = 1
    /\ ListingAt = {1}
    /\ result = TrunkFor(execs[1])

\* a branch name was passed to getBranchCommits / getBranchDiff
BranchSupplied == branchArg # <<"<none>">> /\ branchArg # <<>>

CurrentAt == {i \in DOMAIN execs : execs[i].cmd = "git branch --show-current"}
CompareAt(c) == {i \in DOMAIN execs : execs[i].cmd = c}

\* the direct call of the function fn, which compares with the command cmp and falls back
\* to the command fb, has returned
BranchReadDegrades(fn, cmp, fb) ==
  (entry = fn /\ pc = "done") =>
    /\ BranchSupplied => CurrentAt = {}
    /\ Cardinality(CompareAt(cmp)) <= 1
    /\ Cardinality(CompareAt(fb)) <= 1
    /\ (result # <<"<throws>">>) => Cardinality(CompareAt(cmp)) = 1
    /\ \A i \in CompareAt(cmp) :
         /\ execs[i].a \in {<<"m", "a", "i", "n">>, <<"m", "a", "s", "t", "e", "r">>,
                            <<"d", "e", "v", "e", "l", "o", "p">>}
         /\ BranchSupplied => execs[i].b = branchArg
         /\ ~BranchSupplied =>
              \E j \in CurrentAt : j < i /\ execs[j].ok /\ IsStripOf(execs[i].b, execs[j].text)
         /\ execs[i].ok => (result = execs[i].text /\ CompareAt(fb) = {})
         /\ ~execs[i].ok =>
              /\ Cardinality(CompareAt(fb)) = 1
              /\ \A k \in CompareAt(fb) :
                   /\ k = i + 1
                   /\ result = IF execs[k].ok THEN execs[k].text ELSE <<"<throws>">>

(* C12: getBranchCommits returns the output of the trunk..branch log when  *)
(* that command succeeds and otherwise the output of the log of the ten    *)
(* most recent commits; getBranchDiff returns the trunk...branch diff when *)
(* it succeeds and otherwise the diff of the last five commits; a failure  *)
(* of the fallback command leaves the function as an exception; when a     *)
(* branch name is passed the current branch is not read and the comparison *)
(* names the passed branch.                                                *)
C12_BranchReadsDegrade ==
  /\ BranchReadDegrades("getBranchCommits", "git log a..b --oneline", "git log --oneline -10")
  /\ BranchReadDegrades("getBranchDiff", "git diff a...b", "git diff HEAD~5..HEAD")

\* getBranchDiff('f') has returned the fallback diff after the comparison failed
C12_Witness ==
  /\ entry = "getBranchDiff"
  /\ pc = "done"
  /\ branchArg = <<"f">>
  /\ Len(execs) = 3
  /\ execs[2].cmd = "git diff a...b" /\ ~execs[2].ok /\ execs[2].b = <<"f">>
  /\ execs[3].cmd = "git diff HEAD~5..HEAD" /\ execs[3].ok
  /\ result = <<"d">>

SaysEdit(line) == Spells(line, <<"e">>) \/ Spells(line, <<"e", "d", "i", "t">>)
SaysYes(line) == Spells(line, <<"y">>) \/ Spells(line, <<"y", "e", "s">>)

\* the call i of a confirmation or display step has resolved
HasResolved(i) == calls[i].ret \notin {<<"<none>">>, <<"<throws>">>}

\* file is a PR description file for a branch name of the length of br
IsPRFile(file, br) ==
  /\ Len(file) = Len(br) + 2
  /\ file[1] = "pr-description-"
  /\ file[Len(file)] = ".md"

(* C13: confirmPRDescription reads exactly one input line; if it is y, yes *)
(* or empty (in any case, whitespace around it) the description is written *)
(* to pr-description-<sanitized-branch>.md; if it is edit or e the same    *)
(* file is written with the same content; for every other answer no file   *)
(* write is attempted and 'PR description not saved.' is reported.         *)
C13_ConfirmPRDescription ==
  \A i \in CallsOf("confirmPRDescription") :
    /\ ~HasResolved(i) => writes = <<>>
    /\ HasResolved(i) =>
         /\ linesRead = 1
         /\ answer # <<"<none>">>
         /\ IF SaysAccept(answer) \/ SaysEdit(answer)
              THEN /\ Len(writes) = 1
                   /\ writes[1].content = calls[i].args[1]
                   /\ IsPRFile(writes[1].file, calls[i].args[2])
                   /\ \A k \in DOMAIN out : out[k] # "PR description not saved."
              ELSE /\ writes = <<>>
                   /\ out[Len(out)] = "PR description not saved."

\* confirmPRDescription has written the file after the answer ' Edit' followed by a tab
C13_Witness ==
  /\ entry = "confirmPRDescription"
  /\ pc = "done"
  /\ answer = <<" ", "E", "d", "i", "t", "\t">>
  /\ Len(writes) = 1
  /\ writes[1].content = <<"m">>

\* file is a review file named after some timestamp
IsReviewFile(file) ==
  /\ Len(file) = 3
  /\ file[1] = "code-review-"
  /\ file[3] = ".md"

(* C14: displayCodeReview reads exactly one input line; a review file      *)
(* code-review-<timestamp>.md is written only if the answer is y or yes    *)
(* (in any case, whitespace around it); for every other answer, the empty  *)
(* one included, no file write is attempted and 'Review not saved.' is     *)
(* reported.                                                               *)
C14_DisplayCodeReview ==
  \A i \in CallsOf("displayCodeReview") :
    /\ ~HasResolved(i) => writes = <<>>
    /\ HasResolved(i) =>
         /\ linesRead = 1
         /\ answer # <<"<none>">>
         /\ IF SaysYes(answer)
              THEN /\ Len(writes) = 1
                   /\ writes[1].content = calls[i].args[1]
                   /\ IsReviewFile(writes[1].file)
                   /\ \A k \in DOMAIN out : out[k] # "Review not saved."
              ELSE /\ writes = <<>>
                   /\ out[Len(out)] = "Review not saved."

\* displayCodeReview has resolved without a write after an empty answer
C14_Witness ==
  /\ entry = "displayCodeReview"
  /\ pc = "done"
  /\ answer = <<>>
  /\ writes = <<>>
  /\ out[Len(out)] = "Review not saved."

WriteFailureReports == {"Failed to save PR description:", "Failed to save code review:",
                        "Failed to save PR description for editing:"}

(* C15: when the write of a PR description or of a code review fails, the  *)
(* failure is reported, the confirmation still resolves, the failure       *)
(* boundary of the flow is not entered and the process does not terminate  *)
(* with status 1.                                                          *)
C15_WriteFailureIsCaught ==
  \A k \in DOMAIN writes :
    ~writes[k].ok =>
      /\ out[Len(out)] \in WriteFailureReports
      /\ \A j \in DOMAIN out :
           out[j] \notin {"Failed to generate PR description:", "Failed to perform code review:"}
      /\ calls[Len(calls)].op \in {"confirmPRDescription", "displayCodeReview"}
      /\ calls[Len(calls)].ret = <<"<void>">>
      /\ exitCalls = <<>>
      /\ ~terminated
      /\ pc = "done"
      /\ rlOpen = 0

\* the review flow of the command line program has finished after a failed write
C15_Witness ==
  /\ harness = "cli"
  /\ InReviewFlow
  /\ Len(writes) = 1
  /\ ~writes[1].ok
  /\ pc = "done"

LowerLetters == {"a", "b", "c", "d", "e", "f", "g", "h", "i", "j", "k", "l", "m", "n", "o", "p",
                 "q", "r", "s", "t", "u", "v", "w", "x", "y", "z"}
UpperLetters == {"A", "B", "C", "D", "E", "F", "G", "H", "I", "J", "K", "L", "M", "N", "O", "P",
                 "Q", "R", "S", "T", "U", "V", "W", "X", "Y", "Z"}
Digits == {"0", "1", "2", "3", "4", "5", "6", "7", "8", "9"}

(* C18: for every branch name the PR description is written to             *)
(* pr-description-<s>.md, where <s> has the length of the branch name,     *)
(* every letter and digit of the name in its place and one '-' in the      *)
(* place of every other character; the save answers and the edit answers   *)
(* name the same file.                                                     *)
C18_FilenameSanitized ==
  \A i \in CallsOf("confirmPRDescription") : \A k \in DOMAIN writes :
    LET br == calls[i].args[2]
        file == writes[k].file
    IN /\ IsPRFile(file, br)
       /\ \A j \in 1..Len(br) :
            file[j + 1] = IF br[j] \in LowerLetters \cup UpperLetters \cup Digits
                            THEN br[j] ELSE "-"

\* an edit answer has written the file of the branch 'a.b c'
C18_Witness ==
  /\ \E i \in CallsOf("confirmPRDescription") : calls[i].args[2] = <<"a", ".", "b", " ", "c">>
  /\ SaysEdit(answer)
  /\ Len(writes) = 1
  /\ writes[1].file = <<"pr-description-", "a", "-", "b", "-", "c", ".md">>

FailureReportOf(op) ==
  IF op \in {"getStagedDiff", "generateCommitMessage", "confirmCommitMessage", "commitChanges"}
       /\ InCommitFlow
    THEN "Error:"
  ELSE IF InReviewFlow THEN "Failed to perform code review:"
  ELSE "Failed to generate PR description:"

(* C16: in each of the three flows an exception raised by a version-       *)
(* control read, by the generation call, by the confirmation or display    *)
(* step or by the commit step is reported and process.exit(1) is called    *)
(* (the process ends with status 1); the step that raised is the last step *)
(* of the flow: nothing is called after it, no commit is made and no file  *)
(* is written.                                                             *)
C16_FailureBoundary ==
  \A i \in DOMAIN calls :
    calls[i].ret = <<"<throws>">> =>
      /\ i = Len(calls)
      /\ out[Len(out)] = FailureReportOf(calls[i].op)
      /\ exitCalls = <<1>>
      /\ terminated = (harness = "cli")
      /\ pc = IF harness = "cli" THEN "exited" ELSE "done"
      /\ writes = <<>>
      /\ rlOpen = 0
      /\ Times("commitChanges") = IF calls[i].op = "commitChanges" THEN 1 ELSE 0

\* the commit flow has ended with status 1 because the confirmation step raised
C16_Witness ==
  /\ InCommitFlow
  /\ \E i \in CallsOf("confirmCommitMessage") : calls[i].ret = <<"<throws>">>
  /\ exitCalls = <<1>>
  /\ terminated

GenerationOps == {"generateCommitMessage", "generatePRDescriptionAI", "performCodeReviewAI"}
GenerationCalls == {i \in DOMAIN calls : calls[i].op \in GenerationOps}

(* C17: each call of a text-generation operation issues exactly one API    *)
(* request (no retry); it returns the content of the response without its  *)
(* leading and trailing whitespace, the empty string when the response has *)
(* no content, and it raises when the request fails.                       *)
C17_GenerationContract ==
  /\ Cardinality(GenerationCalls) = Len(requests)
  /\ Len(requests) <= 1
  /\ \A i \in GenerationCalls : \A k \in DOMAIN requests :
       LET reply == requests[k].reply
           ret == calls[i].ret
       IN /\ requests[k].inputs = calls[i].args
          /\ reply.kind = "pending" => ret = <<"<none>">>
          /\ reply.kind = "error" => ret = <<"<throws>">>
          /\ reply.kind = "null" => ret = <<>>
          /\ reply.kind = "content" => IsStripOf(ret, reply.text)

\* a generation call has returned 'm' for the content ' m'
C17_Witness ==
  \E i \in GenerationCalls :
    /\ calls[i].ret = <<"m">>
    /\ requests[1].reply = [kind |-> "content", text |-> <<" ", "m">>]

Gave(op, v) == \E i \in CallsOf(op) : calls[i].ret = v /\ v \notin {<<"<none>">>, <<"<throws>">>}

(* C20: in the PR flow on a non-trunk branch the commits are read before   *)
(* the diff; when the commits text is empty or only whitespace the flow    *)
(* returns without reading the diff, generating or confirming; when the    *)
(* diff is empty or only whitespace the flow returns without generating or *)
(* confirming; otherwise the generation is called exactly once with the    *)
(* commits, the diff and the branch, and the confirmation exactly once,    *)
(* when the generation has returned, with the generated text and the       *)
(* branch.                                                                 *)
C20_PRFlowOrdering ==
  InPRFlow =>
    /\ Times("getBranchCommits") <= 1
    /\ Times("getBranchDiff") <= 1
    /\ \A j \in CallsOf("getBranchDiff") : \E i \in CallsOf("getBranchCommits") : i < j
    /\ \A i \in CallsOf("getBranchCommits") :
         (calls[i].ret # <<"<throws>">> /\ IsBlankText(calls[i].ret)) =>
           /\ Times("getBranchDiff") = 0
           /\ Times("generatePRDescriptionAI") = 0
           /\ Times("confirmPRDescription") = 0
           /\ requests = <<>>
           /\ pc = "done"
    /\ \A j \in CallsOf("getBranchDiff") :
         (calls[j].ret # <<"<throws>">> /\ IsBlankText(calls[j].ret)) =>
           /\ Times("generatePRDescriptionAI") = 0
           /\ Times("confirmPRDescription") = 0
           /\ requests = <<>>
           /\ pc = "done"
    /\ \A ib \in CallsOf("getCurrentBranch") : \A ic \in CallsOf("getBranchCommits") :
       \A id \in CallsOf("getBranchDiff") :
         (calls[id].ret # <<"<throws>">> /\ ~IsBlankText(calls[id].ret)) =>
           /\ calls[ic].ret # <<"<throws>">> /\ ~IsBlankText(calls[ic].ret)
           /\ Times("generatePRDescriptionAI") = 1
           /\ \A g \in CallsOf("generatePRDescriptionAI") :
                /\ calls[g].args = <<calls[ic].ret, calls[id].ret, calls[ib].ret>>
                /\ calls[g].ret \in {<<"<none>">>, <<"<throws>">>} =>
                     Times("confirmPRDescription") = 0
                /\ calls[g].ret \notin {<<"<none>">>, <<"<throws>">>} =>
                     /\ Times("confirmPRDescription") = 1
                     /\ \A k \in CallsOf("confirmPRDescription") :
                          calls[k].args = <<calls[g].ret, calls[ib].ret>>

\* the PR flow on the branch f/x has called the confirmation with the generated text
C20_Witness ==
  /\ InPRFlow
  /\ Gave("getCurrentBranch", <<"f", "/", "x">>)
  /\ Gave("getBranchCommits", <<"c">>)
  /\ Gave("getBranchDiff", <<"d">>)
  /\ \E k \in CallsOf("confirmPRDescription") : calls[k].args = << <<"m">>, <<"f", "/", "x">> >>

\* ---- the commit count of the PR flow ----

\* the number of lines of s that hold a character other than white space: the positions of
\* the first such character of each line
NonBlankLines(s) ==
  Cardinality({i \in 1..Len(s) :
                 /\ s[i] \notin Blank
                 /\ \A j \in 1..(i - 1) : (\A k \in j..(i - 1) : s[k] # "\n") => s[j] \in Blank})

\* C21: the count printed by the PR flow in 'Found N commit(s)' is the number of lines of the
\* commits text that hold at least one non-whitespace character; blank lines, lines of white
\* space and trailing line ends are not counted.
C21_CommitCount ==
  (Gave("getBranchCommits", commits) /\ ~IsBlankText(commits))
    => printedCount = NonBlankLines(commits)

\* a listing of three lines, one of white space, one commit and an empty last one, was counted
C21_Witness ==
  /\ commits = <<" ", "\n", "c", "\n">>
  /\ Gave("getBranchCommits", commits)
  /\ printedCount = 1

\* ---- the saved files across invocations ----

\* C22 (as stated): a saved file is never modified or deleted afterwards: every file that an
\* earlier invocation left in the working directory is still there with the same content.
C22_SavedFilesKept == \A f \in diskAtStart : f \in disk

\* ---- the current branch in the PR flow ----

\* C23 (as stated): in one PR-flow invocation the current branch is read from version
\* control exactly once, and that one value is the branch of the commit listing, of the diff,
\* of the prompt and of the output file name.
C23_BranchReadOnce ==
  InPRFlow =>
    /\ Times("getCurrentBranch") + Cardinality(CurrentAt) <= 1
    /\ \A k \in CallsOf("getCurrentBranch") :
         /\ \A i \in CompareAt("git log a..b --oneline") \cup CompareAt("git diff a...b") :
              execs[i].b = calls[k].ret
         /\ \A i \in CallsOf("generatePRDescriptionAI") : calls[i].args[3] = calls[k].ret
         /\ \A i \in DOMAIN writes : IsPRFile(writes[i].file, calls[k].ret)

\* ---- the readline interfaces ----

\* the interfaces open after the first n events of the log
OpenAfter(n) ==
  Cardinality({i \in 1..n : rlLog[i] = "open"}) - Cardinality({i \in 1..n : rlLog[i] = "close"})

ConfirmationOps == {"confirmCommitMessage", "confirmPRDescription", "displayCodeReview"}

\* C24: terminal reads are strictly sequential: at every point of a confirmation flow at most
\* one readline interface is open, every interface created is closed before the flow
\* resolves, and in the commit-message flow the first interface is closed before the
\* interface of the replacement text is created.
C24_SequentialReads ==
  /\ \A n \in 0..Len(rlLog) : OpenAfter(n) \in {0, 1}
  /\ \A i \in DOMAIN calls :
       (calls[i].op \in ConfirmationOps /\ HasResolved(i)) => OpenAfter(Len(rlLog)) = 0
  /\ \A i \in CallsOf("confirmCommitMessage") :
       Len(rlLog) >= 3 => (rlLog[1] = "open" /\ rlLog[2] = "close" /\ rlLog[3] = "open")

\* the commit-message flow has resolved after n and a replacement text: two interfaces were
\* created and both are closed
C24_Witness ==
  /\ \E i \in CallsOf("confirmCommitMessage") : HasResolved(i)
  /\ rlLog = <<"open", "close", "open", "close">>
  /\ linesRead = 2

\* ---- the resolved commit message ----

\* C25: confirmCommitMessage never turns a non-empty message into an empty one: when the
\* generated message is not empty, the text it resolves with is not empty, whatever was typed.
C25_NonEmptyStaysNonEmpty ==
  \A i \in CallsOf("confirmCommitMessage") :
    (HasResolved(i) /\ calls[i].args[1] # <<>>) => calls[i].ret # <<>>

\* the message was rejected and the replacement typed was white space only: the flow
\* resolved with the generated message
C25_Witness ==
  /\ \E i \in CallsOf("confirmCommitMessage") :
       HasResolved(i) /\ calls[i].args[1] = <<"m">> /\ calls[i].ret = <<"m">>
  /\ SaysReject(answer)
  /\ newMessage = <<" ">>

\* ---- the commit step ----

\* C26: in the commit flow the commit step is invoked at most once per invocation, and only
\* after, in this order, the staged diff was read, the generation call returned successfully
\* and the confirmation resolved with at least one line of terminal input read; no run
\* reaches the commit step without a completed user answer.
C26_CommitStepGuarded ==
  /\ Times("commitChanges") <= 1
  /\ \A k \in CallsOf("commitChanges") :
       /\ \E d \in CallsOf("getStagedDiff"), g \in CallsOf("generateCommitMessage"),
             c \in CallsOf("confirmCommitMessage") :
            /\ d < g /\ g < c /\ c < k
            /\ HasResolved(d) /\ HasResolved(g) /\ HasResolved(c)
       /\ linesRead >= 1
       /\ answer # <<"<none>">>

\* a commit was made after the user rejected the message and typed a replacement
C26_Witness ==
  /\ Times("commitChanges") = 1
  /\ linesRead = 2
  /\ \E k \in CallsOf("commitChanges") : calls[k].args = <<newMessage>> /\ k = 4

\* ---- the number of lines a confirmation reads ----

\* the confirmation op is waiting for an answer / has resolved
Asking(op) == \E i \in CallsOf(op) : calls[i].ret = <<"<none>">>
ResolvedOf(op) == \E i \in CallsOf(op) : HasResolved(i)

\* C27: every confirmation flow resolves after a bounded number of input lines whatever the
\* user types: the commit-message confirmation after at most two lines, two only after n/no;
\* the PR confirmation and the review display after exactly one line; no input makes a
\* question be asked again.
C27_BoundedLines ==
  /\ Asking("confirmCommitMessage") =>
       \/ linesRead = 0
       \/ linesRead = 1 /\ SaysReject(answer)
  /\ ResolvedOf("confirmCommitMessage") =>
       /\ linesRead \in {1, 2}
       /\ linesRead = 2 <=> SaysReject(answer)
  /\ \A op \in {"confirmPRDescription", "displayCodeReview"} :
       /\ Asking(op) => linesRead = 0
       /\ ResolvedOf(op) => linesRead = 1
  /\ Cardinality({i \in DOMAIN out : out[i] = "Generated commit message:"}) <= 1
  /\ Cardinality({i \in DOMAIN out : out[i] = "Please provide your commit message:"}) <= 1

\* the commit-message confirmation resolved after two lines, a rejection and a replacement
\* of white space only
C27_Witness ==
  /\ ResolvedOf("confirmCommitMessage")
  /\ linesRead = 2
  /\ IsBlankText(newMessage)
  /\ SaysReject(answer)

\* ---- the effects of the flows ----

\* C28: flows do not cross their effects: the PR flow and the review flow never invoke the
\* commit step, the commit flow never writes a file, and one invocation performs at most one
\* file write and at most one generation request.
C28_EffectsDoNotCross ==
  /\ (InPRFlow \/ InReviewFlow) => Times("commitChanges") = 0
  /\ InCommitFlow => writes = <<>>
  /\ Len(writes) <= 1
  /\ Len(requests) <= 1

\* a PR flow ended after the answer edit: one request, one file written, no commit
C28_Witness ==
  /\ InPRFlow /\ pc = "done"
  /\ SaysEdit(answer)
  /\ Len(writes) = 1 /\ Len(requests) = 1
  /\ Times("commitChanges") = 0

\* ---- exact remote ref names ----

\* C29 (as stated): getMainBranch decides on exact remote ref names: when the listing has no
\* ref named exactly origin/main but has a ref named exactly origin/master, the result is
\* 'master', and when it has neither but has a ref named exactly origin/develop, the result
\* is 'develop', even if other refs of the listing start with origin/main.
C29_ExactRefNames ==
  (entry = "getMainBranch" /\ pc = "done") =>
    \A i \in ListingAt :
      (execs[i].ok /\ ~HasRef(RefMain, execs[i].text)) =>
        /\ HasRef(RefMaster, execs[i].text) => result = <<"m", "a", "s", "t", "e", "r">>
        /\ (~HasRef(RefMaster, execs[i].text) /\ HasRef(RefDevelop, execs[i].text))
             => result = <<"d", "e", "v", "e", "l", "o", "p">>

\* ---- the commit message and the shell ----

\* C30 (as stated): the commit message that the version-control tool receives is the text
\* passed to commitChanges, for every text; no part of the message is read as shell syntax
\* or run as another command.
C30_MessageReachesGitVerbatim ==
  (entry = "commitChanges" /\ pc = "done") =>
    \A i \in DOMAIN execs :
      execs[i].cmd = "git commit -m" => (execs[i].a = message /\ execs[i].b = <<>>)

====
